---- MODULE Spec2Model ----
(***************************************************************************)
(* Model of the ingestion core of ia-juris: the paginated fetch engine     *)
(* (app.py fetch_data) and the persistence gateway (app.py save_to_db).    *)
(***************************************************************************)
EXTENDS Integers, Sequences, FiniteSets, TLC

(***************************************************************************)
(* Bounds of the model.                                                    *)
(***************************************************************************)
\* longest flat item list a generated source holds
MaxItems == 3
\* items the generated source puts on one page
FixturePageSize == 2
\* largest max_pages_fetch argument tried
MaxLimit == 2
\* retryable answers (429, 5xx, transport failure) the source gives in a run
MaxFailures == 3
\* longest batch handed to save_to_db
MaxBatch == 2
\* save_to_db calls in one run of the program
MaxSaves == 2
\* ingestion rounds begun in one run of the program
MaxUpdates == 3
\* tokens of a generated text given to extract_keywords
MaxTokens == 3
\* runs of compare_sentencias on one pair of rulings
MaxRuns == 2
\* similarity requests received in one run of the program
MaxQueries == 2
\* rulings in an index given to find_similar
MaxIndexed == 3
\* largest limit argument tried besides the default
MaxLimitAsked == 2

(***************************************************************************)
(* Python values.  A text that is meant to hold a date is modelled by its  *)
(* shape: "ymd" is a text of the form Y-M-D with the three numbers it      *)
(* spells, "N/A" the sentinel, "None" the absent value, "text" any other   *)
(* text.  NULL stands for None where an integer is expected (source ids    *)
(* are positive).                                                          *)
(***************************************************************************)
NULL == 0

SetMin(S) == CHOOSE x \in S : \A y \in S : x <= y
SetMax(S) == CHOOSE x \in S : \A y \in S : y <= x

DateText(y, m, d) == [kind |-> "ymd", y |-> y, m |-> m, d |-> d]
NA == [kind |-> "N/A", y |-> 0, m |-> 0, d |-> 0]
NoneText == [kind |-> "None", y |-> 0, m |-> 0, d |-> 0]
OtherText == [kind |-> "text", y |-> 0, m |-> 0, d |-> 0]

\* truthiness of a text value: None and the empty text are falsy
Truthy(s) == s.kind # "None"

IsLeap(y) == (y % 4 = 0 /\ y % 100 # 0) \/ y % 400 = 0

DaysInMonth(y, m) ==
    IF m = 2 THEN (IF IsLeap(y) THEN 29 ELSE 28)
    ELSE IF m \in {4, 6, 9, 11} THEN 30 ELSE 31

ValueError == -1

\* datetime.strptime(s, '%Y-%m-%d').date(): the date as a number that orders
\* as dates do, or ValueError when the text is not a calendar date
strptime(s) ==
    IF /\ s.kind = "ymd"
       /\ s.y \in 1..9999
       /\ s.m \in 1..12
       /\ s.d \in 1..DaysInMonth(s.y, s.m)
    THEN s.y * 10000 + s.m * 100 + s.d
    ELSE ValueError

(***************************************************************************)
(* Texts.  A text is the sequence of its tokens: maximal runs of letters   *)
(* (words), other runs of non-blank characters, and single separator       *)
(* characters.  A list of paragraphs and a plain text are told apart by    *)
(* their type, as isinstance does.                                         *)
(***************************************************************************)
SP == " "
NL == "\n"
\* the backspace character, which '\b' denotes in a Python string literal
BS == "\\b"
Whitespace == {SP, NL}
Separators == Whitespace \cup {BS}

PyList(paragraphs) == [type |-> "list", items |-> paragraphs]
PyStr(text) == [type |-> "str", items |-> <<text>>]
PyNone == [type |-> "None", items |-> <<>>]

\* sep.join(texts)
RECURSIVE Join(_, _)
Join(texts, sep) ==
    IF texts = <<>> THEN <<>>
    ELSE IF Len(texts) = 1 THEN texts[1]
    ELSE texts[1] \o <<sep>> \o Join(Tail(texts), sep)

\* str.lower() of one token
LowerOf(tok) ==
    CASE tok = "Derecho" -> "derecho"
      [] tok = "Contrato" -> "contrato"
      [] OTHER -> tok

Lower(text) == [k \in DOMAIN text |-> LowerOf(text[k])]

\* tokens that are not made of the letters a-z, á, é, í, ó, ú, ñ only
NonLetterTokens == Separators \cup {"Derecho", "Contrato", "2024"}

CharLen(tok) == IF tok = BS THEN 1 ELSE Len(tok)

RECURSIVE TextLen(_)
TextLen(text) ==
    IF text = <<>> THEN 0 ELSE CharLen(Head(text)) + TextLen(Tail(text))

(***************************************************************************)
(* The remote source: a list of pages, each a list of items; an item is    *)
(* the _source mapping, a function from the keys it has to their values.   *)
(***************************************************************************)
Get(source, key, default) ==
    IF key \in DOMAIN source THEN source[key] ELSE default

\* an item whose every field is present
FullItem(id, fecha) ==
    [id |-> id,
     numero_sentencia |-> ToString(id),
     fecha_publicacion |-> fecha,
     nombre_demandante |-> "demandante",
     nombre_demandado |-> "demandado",
     numero_expediente |-> "expediente",
     fundamentos |-> PyList(<< <<"fundamento">> >>),
     url_archivo |-> "url"]

\* an item that lacks its publication date
UndatedItem(id) ==
    [k \in (DOMAIN FullItem(id, NA)) \ {"fecha_publicacion"} |-> FullItem(id, NA)[k]]

Mar01 == DateText(2024, 3, 1)
Mar02 == DateText(2024, 3, 2)
Mar03 == DateText(2024, 3, 3)
Feb15 == DateText(2024, 2, 15)
Feb16 == DateText(2024, 2, 16)
Feb30 == DateText(2024, 2, 30)

\* the two-page fixture of the end-to-end scenario
ScenarioCorpus ==
    << << FullItem(1, Mar03), FullItem(2, Mar02), FullItem(3, Mar01) >>,
       << FullItem(4, Feb16), FullItem(5, Feb15) >> >>

\* what a generated item may carry as its date
ItemDates == {Mar02, Feb16, NA, Feb30}

MakeItem(id, fecha) ==
    IF fecha = NoneText THEN UndatedItem(id) ELSE FullItem(id, fecha)

\* the flat list of items cut into pages of FixturePageSize items
Paginate(flat) ==
    LET n == (Len(flat) + FixturePageSize - 1) \div FixturePageSize
    IN [p \in 1..n |->
          SubSeq(flat, (p - 1) * FixturePageSize + 1,
                 IF p * FixturePageSize < Len(flat) THEN p * FixturePageSize ELSE Len(flat))]

GeneratedCorpora ==
    { Paginate([k \in DOMAIN f |-> MakeItem(k, f[k])]) :
        f \in UNION { [1..n -> ItemDates \cup {NoneText}] : n \in 1..MaxItems } }

\* an item without some of its fields
Without(item, keys) == [k \in (DOMAIN item) \ keys |-> item[k]]

\* a page whose items lack the id, the fundamentos, and every field
SparseCorpus ==
    << << Without(FullItem(1, Mar02), {"id"}),
          Without(FullItem(2, Mar02), {"fundamentos"}),
          Without(FullItem(3, Mar02), DOMAIN FullItem(3, Mar02)) >> >>

\* two pages whose dates are in no order: a later date after an earlier
\* one, dates that are none, and a date past an older item
UnorderedCorpus ==
    << << FullItem(1, Mar02), FullItem(2, Mar03), FullItem(3, Feb30) >>,
       << UndatedItem(4), FullItem(5, Feb15), FullItem(6, Mar03) >> >>

Corpora == GeneratedCorpora \cup {ScenarioCorpus, SparseCorpus, UnorderedCorpus}

(***************************************************************************)
(* Program constants.                                                      *)
(***************************************************************************)
\* a retry budget of 4
retriesFour == 3 + 1

\* retries = 3
retries == 3
\* delay = 5, the first backoff sleep in seconds
BaseDelay == 5
\* config.API_DELAY, seconds between pages
API_DELAY == 1

\* max_pages_fetch = None
NoLimit == -1
\* stop_date = None
NoDate == 0

(***************************************************************************)
(* State.                                                                  *)
(***************************************************************************)
VARIABLES
    \* the remote source and the arguments of the fetch_data call
    corpus, start_page, max_pages_fetch, stop_date_str,
    \* locals of fetch_data
    stop_date, page, pages_processed, attempt, delay, response, all_data,
    \* position of fetch_data: "while", "attempt", "process", "done"
    fpc,
    \* what the source has seen: one <<page, answer>> per request received
    requests,
    \* the seconds of every time.sleep call of the run, in order
    sleeps

VARIABLES
    \* the committed content of the store: tables sentencias and estadisticas
    sentencias, estadisticas,
    \* datetime.now(), in seconds
    clock,
    \* the save_to_db call: its argument, loop position and locals
    data, idx, nuevas, actualizadas, fecha_actual,
    \* the sentencias table as the call's open connection sees it
    tx_sentencias,
    \* position of save_to_db: "idle", "loop", "returned", "raised"
    spc,
    \* the value the last completed call returned
    ret,
    \* the number of save_to_db calls made so far
    calls,
    \* the argument of the last call that returned, when it was one record
    previous,
    \* the running call was given the one record of the call before it
    repeated

VARIABLES
    \* the ingestion pipelines (background_update and /api/actualizar): the
    \* position of each and the records its fetch_data call returned
    upc, udata,
    \* how the last round of each pipeline ended: "none" before its first
    \* round, "saved", "empty" (nothing fetched) or "error" (logged, or
    \* answered with status 500)
    uout,
    \* the pipeline whose connection holds the store's write transaction
    writer,
    \* the global last_update
    last_update,
    \* the number of ingestion rounds begun so far
    updates

updateVars == <<upc, udata, uout, writer, last_update, updates>>

VARIABLES
    \* the similarity index: text_analyzer.vectors and .sentencias_ids
    vectors, sentencias_ids,
    \* a find_similar call: its arguments, its result, and whether it is
    \* "idle", "called" or "returned"
    arg_id, arg_threshold, arg_limit, found, simpc

similarVars == <<vectors, sentencias_ids, arg_id, arg_threshold, arg_limit, found, simpc>>

VARIABLES
    \* the similarity requests: the position of each handler, the id asked
    \* for, the rulings it read, its place in the loop of build_index and
    \* its answer
    qpc, qid, qrows, qk, qout,
    \* the number of similarity requests received so far
    queries

queryVars == <<qpc, qid, qrows, qk, qout, queries>>

VARIABLES
    \* the two rulings given to compare_sentencias, the hash seed of the
    \* running interpreter, and what the runs on the pair returned
    sentencia1, sentencia2, hashseed, comparisons

compareVars == <<sentencia1, sentencia2, hashseed, comparisons>>

VARIABLES
    \* an extract_keywords call: its argument, its list palabras_clave,
    \* the text it returns and its position
    kw_arg, kw_list, kw_ret, kwpc

keywordVars == <<kw_arg, kw_list, kw_ret, kwpc>>

\* everything outside fetch_data and save_to_db
serviceVars == <<updateVars, similarVars, queryVars, compareVars, keywordVars>>

saveVars == <<sentencias, estadisticas, clock, data, idx, nuevas, actualizadas,
              fecha_actual, tx_sentencias, spc, ret, calls, previous, repeated>>

fetchArgs == <<corpus, start_page, max_pages_fetch, stop_date_str, stop_date>>
fetchVars == <<fetchArgs, page, pages_processed, attempt, delay, response,
               all_data, fpc, requests, sleeps>>

NoResponse == [status |-> 0, body |-> "none"]

\* the statuses the source may answer with
RateLimited == 429
ServerErrors == {500, 503}
\* statuses that are neither 200 nor retried: no content, not found
ClientErrors == {204, 404}
\* what a 200 answer may carry
Bodies == {"envelope", "no_pagination", "error_flag", "no_data", "empty_data", "not_json"}

(***************************************************************************)
(* fetch_data: argument handling (lines 198-211).                          *)
(***************************************************************************)
ParseStopDate(s) ==
    IF Truthy(s)
    THEN (IF strptime(s) = ValueError THEN NoDate ELSE strptime(s))
    ELSE NoDate

StopDateArgs == {NoneText, OtherText, Mar01, Mar02}

\* the start_page arguments tried: the default and a resumed run
StartPages == {1, 2}

FetchInit ==
    /\ corpus \in Corpora
    /\ start_page \in StartPages
    /\ max_pages_fetch \in {NoLimit} \cup 0..MaxLimit
    /\ stop_date_str \in StopDateArgs
    /\ stop_date = ParseStopDate(stop_date_str)
    /\ page = start_page
    /\ pages_processed = 0
    /\ attempt = 0
    /\ delay = BaseDelay
    /\ response = NoResponse
    /\ all_data = <<>>
    /\ fpc = "while"
    /\ requests = <<>>
    /\ sleeps = <<>>

(***************************************************************************)
(* fetch_data: the page loop and its retry loop (lines 213-257).           *)
(***************************************************************************)
\* the page limit tested with > in place of >=
LimitReachedLate(limit, processed) ==
    limit # NoLimit /\ processed > limit

LimitReached(limit, processed) ==
    limit # NoLimit /\ processed >= limit

\* while True: ... break on the page limit (lines 213-216)
StopAtLimit ==
    /\ fpc = "while"
    /\ LimitReached(max_pages_fetch, pages_processed)
    /\ fpc' = "done"
    /\ UNCHANGED <<saveVars, serviceVars, fetchArgs, page, pages_processed, attempt, delay, response,
                   all_data, requests, sleeps>>

\* the retry loop entered with the delay the last page left
BeginRetriesKeepsDelay ==
    /\ fpc = "while"
    /\ ~LimitReached(max_pages_fetch, pages_processed)
    /\ attempt' = 0
    /\ fpc' = "attempt"
    /\ UNCHANGED <<saveVars, serviceVars, fetchArgs, page, pages_processed, response, all_data,
                   requests, sleeps, delay>>

\* retries = 3; delay = 5; enter the for loop (lines 219-221)
BeginRetries ==
    /\ fpc = "while"
    /\ ~LimitReached(max_pages_fetch, pages_processed)
    /\ attempt' = 0
    /\ delay' = BaseDelay
    /\ fpc' = "attempt"
    /\ UNCHANGED <<saveVars, serviceVars, fetchArgs, page, pages_processed, response, all_data,
                   requests, sleeps>>

\* the retryable answers the source has given
Failures == Cardinality({ k \in DOMAIN requests : requests[k][2] = "retryable" })

\* the statuses after which the attempt is repeated (lines 231, 238)
IsRetryable(status) == status = 429 \/ status >= 500

\* requests.get answers with a retryable status: sleep, double, continue
\* (lines 224-242)
RetryableAnswer(status) ==
    /\ fpc = "attempt"
    /\ attempt < retries
    /\ IsRetryable(status)
    /\ Failures < MaxFailures
    /\ response' = [status |-> status, body |-> "none"]
    /\ requests' = Append(requests, <<page, "retryable">>)
    /\ sleeps' = Append(sleeps, delay)
    /\ delay' = delay * 2
    /\ attempt' = attempt + 1
    /\ UNCHANGED <<saveVars, serviceVars, fetchArgs, page, pages_processed, all_data, fpc>>

RateLimitAnswer == RetryableAnswer(RateLimited)

ServerErrorAnswer == \E status \in ServerErrors : RetryableAnswer(status)

\* requests.get raises RequestException: sleep, double, next attempt
\* (lines 247-250); response keeps the value of the last answer
TransportFailure ==
    /\ fpc = "attempt"
    /\ attempt < retries
    /\ Failures < MaxFailures
    /\ requests' = Append(requests, <<page, "retryable">>)
    /\ sleeps' = Append(sleeps, delay)
    /\ delay' = delay * 2
    /\ attempt' = attempt + 1
    /\ UNCHANGED <<saveVars, serviceVars, fetchArgs, page, pages_processed, response, all_data, fpc>>

\* the for loop ran out and the run is given up
RetriesExhaustedAborts ==
    /\ fpc = "attempt"
    /\ attempt >= retries
    /\ fpc' = "done"
    /\ UNCHANGED <<saveVars, serviceVars, fetchArgs, page, pages_processed, attempt, delay,
                   response, all_data, requests, sleeps>>

\* the for loop ran out: skip the page (lines 251-256)
RetriesExhausted ==
    /\ fpc = "attempt"
    /\ attempt >= retries
    /\ page' = page + 1
    /\ pages_processed' = pages_processed + 1
    /\ fpc' = "while"
    /\ UNCHANGED <<saveVars, serviceVars, fetchArgs, attempt, delay, response, all_data, requests, sleeps>>

\* what the source has on a page: a 200 answer carries data only for
\* a page the source holds
SourceHas(p, body) ==
    body \in {"envelope", "no_pagination"} => p \in 1..Len(corpus)

\* requests.get answers 200 or a client error: break (lines 244-245)
FinalAnswer(status, body) ==
    /\ fpc = "attempt"
    /\ attempt < retries
    /\ ~IsRetryable(status)
    /\ SourceHas(page, body)
    /\ response' = [status |-> status, body |-> body]
    /\ requests' = Append(requests, <<page, IF status = 200 THEN body ELSE "http_error">>)
    /\ fpc' = "process"
    /\ UNCHANGED <<saveVars, serviceVars, fetchArgs, page, pages_processed, attempt, delay, all_data, sleeps>>

OkAnswer == \E body \in Bodies : FinalAnswer(200, body)

ClientErrorAnswer == \E status \in ClientErrors : FinalAnswer(status, "none")

(***************************************************************************)
(* fetch_data: processing of the answer (lines 260-306).                   *)
(***************************************************************************)
\* the record built from one item's _source (lines 278-287)
Normalize(source) ==
    [id |-> Get(source, "id", NULL),
     numero_sentencia |-> Get(source, "numero_sentencia", "N/A"),
     fecha_publicacion |-> Get(source, "fecha_publicacion", NA),
     nombre_demandante |-> Get(source, "nombre_demandante", "N/A"),
     nombre_demandado |-> Get(source, "nombre_demandado", "N/A"),
     numero_expediente |-> Get(source, "numero_expediente", "N/A"),
     fundamentos |-> Get(source, "fundamentos", PyList(<<>>)),
     url_archivo |-> Get(source, "url_archivo", "N/A")]

\* the stop-date test with <= in place of <
ItemIsOlderOrSame(source, stop) ==
    /\ stop # NoDate
    /\ LET item_date_str == Get(source, "fecha_publicacion", NoneText)
       IN /\ Truthy(item_date_str)
          /\ item_date_str # NA
          /\ strptime(item_date_str) # ValueError
          /\ strptime(item_date_str) <= stop

\* the stop-date test of one item (lines 267-277)
ItemIsOlder(source, stop) ==
    /\ stop # NoDate
    /\ LET item_date_str == Get(source, "fecha_publicacion", NoneText)
       IN /\ Truthy(item_date_str)
          /\ item_date_str # NA
          /\ strptime(item_date_str) # ValueError
          /\ strptime(item_date_str) < stop

\* for item in data['data'] (lines 264-287): the records appended to acc and
\* whether the loop was left on an item older than the stop date
RECURSIVE ProcessItems(_, _, _)
ProcessItems(items, stop, acc) ==
    IF items = <<>>
    THEN [data |-> acc, stop_fetching |-> FALSE]
    ELSE IF ItemIsOlder(Head(items), stop)
         THEN [data |-> acc, stop_fetching |-> TRUE]
         ELSE ProcessItems(Tail(items), stop, Append(acc, Normalize(Head(items))))

\* pagination.get('num_pages', page) (lines 290-291)
ReportedNumPages(body, p) ==
    IF body = "envelope" THEN Len(corpus) ELSE p

\* the last-page test taken one page early
IsLastPageEarly(p, num_pages) == p + 1 >= num_pages

\* if page >= pagination.get('num_pages', page) (line 291)
IsLastPage(p, num_pages) == p >= num_pages

\* a 200 answer with a usable envelope (lines 261-293, 304-306)
ProcessPage ==
    /\ fpc = "process"
    /\ response.status = 200
    /\ response.body \in {"envelope", "no_pagination"}
    /\ LET r == ProcessItems(corpus[page], stop_date, all_data)
       IN /\ all_data' = r.data
          /\ IF r.stop_fetching \/ IsLastPage(page, ReportedNumPages(response.body, page))
             THEN /\ fpc' = "done"
                  /\ UNCHANGED <<page, pages_processed, sleeps>>
             ELSE /\ page' = page + 1
                  /\ pages_processed' = pages_processed + 1
                  /\ sleeps' = Append(sleeps, API_DELAY)
                  /\ fpc' = "while"
    /\ UNCHANGED <<saveVars, serviceVars, fetchArgs, attempt, delay, response, requests>>

\* an envelope without data only skips its page
ProcessNoDataSkips ==
    /\ fpc = "process"
    /\ response.status = 200
    /\ response.body \in {"error_flag", "no_data", "empty_data"}
    /\ page' = page + 1
    /\ pages_processed' = pages_processed + 1
    /\ fpc' = "while"
    /\ UNCHANGED <<saveVars, serviceVars, fetchArgs, attempt, delay, response,
                   all_data, requests, sleeps>>

\* a 200 answer whose envelope has an error flag, no data or empty data
\* (lines 263, 294-296)
ProcessNoData ==
    /\ fpc = "process"
    /\ response.status = 200
    /\ response.body \in {"error_flag", "no_data", "empty_data"}
    /\ fpc' = "done"
    /\ UNCHANGED <<saveVars, serviceVars, fetchArgs, page, pages_processed, attempt, delay, response,
                   all_data, requests, sleeps>>

\* response.json() raises: except Exception ... break (lines 262, 300-302)
ProcessUnparseable ==
    /\ fpc = "process"
    /\ response.status = 200
    /\ response.body = "not_json"
    /\ fpc' = "done"
    /\ UNCHANGED <<saveVars, serviceVars, fetchArgs, page, pages_processed, attempt, delay, response,
                   all_data, requests, sleeps>>

\* a status other than 200 only skips its page
ProcessHttpErrorSkips ==
    /\ fpc = "process"
    /\ response.status # 200
    /\ page' = page + 1
    /\ pages_processed' = pages_processed + 1
    /\ fpc' = "while"
    /\ UNCHANGED <<saveVars, serviceVars, fetchArgs, attempt, delay, response,
                   all_data, requests, sleeps>>

\* a status other than 200 left the retry loop (lines 297-299)
ProcessHttpError ==
    /\ fpc = "process"
    /\ response.status # 200
    /\ fpc' = "done"
    /\ UNCHANGED <<saveVars, serviceVars, fetchArgs, page, pages_processed, attempt, delay, response,
                   all_data, requests, sleeps>>

(***************************************************************************)
(* config.py                                                               *)
(***************************************************************************)
STOPWORDS ==
    {"el", "la", "de", "en", "a", "que", "y", "los", "las", "del",
     "al", "es", "un", "una", "por", "para", "con", "se", "su", "le",
     "lo", "como", "más", "o", "pero", "sus", "les", "ya", "este",
     "ese", "esto", "eso", "estos", "esos", "esta", "esa", "estas",
     "esas", "aqui", "ahi", "alli", "nos", "ante", "sobre", "todo",
     "también", "tras", "otro", "otra", "otros", "otras", "él", "ella",
     "ellos", "ellas", "si", "no", "ni", "cuando", "donde", "quien",
     "cual", "cuales", "cuyo", "cuya", "cuyos", "cuyas"}
MIN_WORD_LENGTH == 4
MAX_KEYWORDS == 10
SUMMARY_LENGTH == 200

(***************************************************************************)
(* extract_keywords (lines 95-111).  The pattern is a raw literal, the     *)
(* number and an ordinary literal: its first '\b' is the word boundary of  *)
(* the regular expression, its last '\b' the backspace character.  A match *)
(* is a run of at least MIN_WORD_LENGTH letters that starts a word and is  *)
(* followed by a backspace, backspace included.                            *)
(***************************************************************************)
IsLetters(tok) == tok \notin NonLetterTokens

\* a word may start at position k: nothing stands before it but a
\* character that belongs to no word
WordStart(text, k) == k = 1 \/ text[k - 1] \in Separators

\* re.findall(pattern, text): the matches from left to right, none
\* overlapping; each is the matched text, the backspace included
RECURSIVE FindAll(_, _)
FindAll(text, k) ==
    IF k > Len(text) THEN <<>>
    ELSE IF /\ k + 1 <= Len(text)
            /\ WordStart(text, k)
            /\ IsLetters(text[k])
            /\ Len(text[k]) >= MIN_WORD_LENGTH
            /\ text[k + 1] = BS
         THEN <<text[k] \o BS>> \o FindAll(text, k + 2)
         ELSE FindAll(text, k + 1)

NotStopword(p) == p \notin STOPWORDS

Occurrences(words, w) == Cardinality({k \in DOMAIN words : words[k] = w})

\* the distinct elements of words in order of first occurrence
FirstSeen(words) ==
    LET IsFirst(k) == \A j \in 1..(k - 1) : words[j] # words[k]
        RECURSIVE Pick(_)
        Pick(k) == IF k > Len(words) THEN <<>>
                   ELSE (IF IsFirst(k) THEN <<words[k]>> ELSE <<>>) \o Pick(k + 1)
    IN Pick(1)

\* Counter(words).most_common(n): by decreasing count, equal counts in order
\* of first occurrence
RECURSIVE TopOf(_, _, _)
TopOf(cands, words, n) ==
    IF n = 0 \/ cands = <<>> THEN <<>>
    ELSE LET best == CHOOSE k \in DOMAIN cands :
                        /\ \A j \in DOMAIN cands :
                              Occurrences(words, cands[j]) <= Occurrences(words, cands[k])
                        /\ \A j \in 1..(k - 1) :
                              Occurrences(words, cands[j]) < Occurrences(words, cands[k])
             rest == [j \in 1..(Len(cands) - 1) |->
                         IF j < best THEN cands[j] ELSE cands[j + 1]]
         IN <<cands[best]>> \o TopOf(rest, words, n - 1)

most_common(words, n) == TopOf(FirstSeen(words), words, n)

\* ', '.join(words) as one text value
RECURSIVE CommaJoin(_)
CommaJoin(words) ==
    IF words = <<>> THEN ""
    ELSE IF Len(words) = 1 THEN words[1]
    ELSE words[1] \o ", " \o CommaJoin(Tail(words))

\* texto (lines 96-99)
KeywordText(fundamentos) ==
    IF fundamentos.type = "list" THEN Join(fundamentos.items, SP)
    ELSE fundamentos.items[1]

\* the list palabras_clave: the words found, filtered, counted and ranked
\* (lines 103-110)
keyword_list(fundamentos) ==
    LET palabras == FindAll(Lower(KeywordText(fundamentos)), 1)
        palabras_filtradas == SelectSeq(palabras, NotStopword)
    IN most_common(palabras_filtradas, MAX_KEYWORDS)

extract_keywords(fundamentos) == CommaJoin(keyword_list(fundamentos))

(***************************************************************************)
(* generate_summary (lines 113-127).                                       *)
(***************************************************************************)
\* re.sub(r'\s+', ' ', text).strip()
RECURSIVE Collapse(_)
Collapse(text) ==
    IF text = <<>> THEN <<>>
    ELSE IF Head(text) \in Whitespace
         THEN (IF Len(text) >= 2 /\ text[2] \in Whitespace
               THEN Collapse(Tail(text))
               ELSE <<SP>> \o Collapse(Tail(text)))
         ELSE <<Head(text)>> \o Collapse(Tail(text))

Strip(text) ==
    LET body == { k \in DOMAIN text : text[k] \notin Whitespace }
    IN IF body = {} THEN <<>>
       ELSE SubSeq(text, SetMin(body), SetMax(body))

\* the summary: the text and, when it was cut, the number of its characters
\* kept before the '...' marker (0 when the text is kept whole)
generate_summary(fundamentos) ==
    LET texto == IF fundamentos.type = "list"
                 THEN Join(SubSeq(fundamentos.items, 1,
                                  IF Len(fundamentos.items) < 3
                                  THEN Len(fundamentos.items) ELSE 3), SP)
                 ELSE fundamentos.items[1]
        limpio == Strip(Collapse(texto))
    IN IF TextLen(limpio) > SUMMARY_LENGTH
       THEN [text |-> limpio, kept |-> SUMMARY_LENGTH - 3]
       ELSE [text |-> limpio, kept |-> 0]

(***************************************************************************)
(* The sentencias table (init_db, lines 47-61): id INTEGER PRIMARY KEY,    *)
(* numero_sentencia TEXT UNIQUE.                                           *)
(***************************************************************************)
ItemKeys == {"id", "numero_sentencia", "fecha_publicacion", "nombre_demandante",
             "nombre_demandado", "numero_expediente", "fundamentos", "url_archivo"}

\* processing the item raises before any statement is executed: a key is
\* missing (KeyError) or fundamentos is neither a list nor a text
ItemRaises(item) ==
    \/ ItemKeys \ DOMAIN item # {}
    \/ item["fundamentos"].type \notin {"list", "str"}

\* fundamentos_texto (line 139)
fundamentos_texto(fundamentos) ==
    IF fundamentos.type = "list" THEN Join(fundamentos.items, NL)
    ELSE fundamentos.items[1]

\* the rowid given to a row inserted with a NULL id
NextRowId(rows) ==
    IF rows = {} THEN 1 ELSE SetMax({r.id : r \in rows}) + 1

\* the INSERT violates PRIMARY KEY or UNIQUE: sqlite3.IntegrityError
InsertConflicts(rows, item) ==
    \/ item["id"] # NULL /\ \E r \in rows : r.id = item["id"]
    \/ \E r \in rows : r.numero_sentencia = item["numero_sentencia"]

\* the row of the INSERT statement (lines 144-155)
InsertedRow(rows, item, fecha) ==
    [id |-> IF item["id"] = NULL THEN NextRowId(rows) ELSE item["id"],
     numero_sentencia |-> item["numero_sentencia"],
     fecha_publicacion |-> item["fecha_publicacion"],
     nombre_demandante |-> item["nombre_demandante"],
     nombre_demandado |-> item["nombre_demandado"],
     numero_expediente |-> item["numero_expediente"],
     fundamentos |-> fundamentos_texto(item["fundamentos"]),
     url_archivo |-> item["url_archivo"],
     fecha_scraping |-> fecha,
     palabras_clave |-> extract_keywords(item["fundamentos"]),
     resumen |-> generate_summary(item["fundamentos"])]

\* the rows the UPDATE statement matches (line 164)
UpdateMatches(rows, item) ==
    { r \in rows : r.numero_sentencia = item["numero_sentencia"] }

\* a matched row after the UPDATE statement (lines 159-170)
UpdatedRow(r, item, fecha) ==
    [r EXCEPT !.fecha_publicacion = item["fecha_publicacion"],
              !.nombre_demandante = item["nombre_demandante"],
              !.nombre_demandado = item["nombre_demandado"],
              !.numero_expediente = item["numero_expediente"],
              !.fundamentos = fundamentos_texto(item["fundamentos"]),
              !.url_archivo = item["url_archivo"],
              !.fecha_scraping = fecha,
              !.palabras_clave = extract_keywords(item["fundamentos"]),
              !.resumen = generate_summary(item["fundamentos"])]

(***************************************************************************)
(* save_to_db (lines 129-187).                                             *)
(***************************************************************************)
\* two versions of the mutable fields of a record
Content(v) ==
    IF v = 1
    THEN [fecha_publicacion |-> Mar01,
          nombre_demandante |-> "demandante",
          nombre_demandado |-> "demandado",
          numero_expediente |-> "expediente",
          fundamentos |-> PyList(<< <<"Derecho", SP, SP, "civil">>,
                                    <<"para", NL, "derecho">> >>),
          url_archivo |-> "url"]
    ELSE [fecha_publicacion |-> NA,
          nombre_demandante |-> "N/A",
          nombre_demandado |-> "N/A",
          numero_expediente |-> "N/A",
          fundamentos |-> PyStr(<<BS, "Contrato", BS, SP, BS, "sobre", BS>>),
          url_archivo |-> "N/A"]

Record(id, numero, v) ==
    [k \in ItemKeys |->
        IF k = "id" THEN id
        ELSE IF k = "numero_sentencia" THEN numero
        ELSE Content(v)[k]]

\* a record without its url_archivo key, and one whose fundamentos is None
BrokenRecords ==
    { [k \in ItemKeys \ {"url_archivo"} |-> Record(1, "A", 1)[k]],
      [Record(1, "A", 1) EXCEPT !["fundamentos"] = PyNone] }

\* a ruling, a later version of it, a ruling with the same id and another
\* number, one with the same number and another id, an unrelated ruling and
\* one that came without an id
Records ==
    { Record(1, "A", 1), Record(1, "A", 2), Record(1, "B", 2),
      Record(2, "A", 2), Record(2, "B", 1), Record(NULL, "B", 1) }
      \cup BrokenRecords

Batches == UNION { [1..n -> Records] : n \in 0..MaxBatch }

\* a statistics row that reports every stored ruling as a new one
StatsRowCountsAll(rows, fecha, n) ==
    [fecha |-> fecha, total_sentencias |-> Cardinality(rows),
     nuevas_sentencias |-> Cardinality(rows), ultima_actualizacion |-> fecha]

\* the statistics row (lines 175-181)
StatsRow(rows, fecha, n) ==
    [fecha |-> fecha, total_sentencias |-> Cardinality(rows),
     nuevas_sentencias |-> n, ultima_actualizacion |-> fecha]

\* the data.db file found at start: empty tables (init_db), or what an
\* earlier run of the program left after save_to_db([Record(1, "A", 1)])
StoredBefore ==
    { [sentencias |-> {}, estadisticas |-> <<>>],
      [sentencias |-> {InsertedRow({}, Record(1, "A", 1), 0)},
       estadisticas |-> <<StatsRow({InsertedRow({}, Record(1, "A", 1), 0)}, 0, 1)>>] }

SaveInit ==
    /\ \E db \in StoredBefore :
          /\ sentencias = db.sentencias
          /\ estadisticas = db.estadisticas
          /\ tx_sentencias = db.sentencias
    /\ clock = 0
    /\ data = <<>>
    /\ idx = 0
    /\ nuevas = 0
    /\ actualizadas = 0
    /\ fecha_actual = 0
    /\ spc = "idle"
    /\ ret = 0
    /\ calls = 0
    /\ previous = <<>>
    /\ repeated = FALSE

\* save_to_db(batch) is called: connect, reset the counters, read the clock
\* (lines 131-136)
SaveCall ==
    /\ spc = "idle"
    /\ calls < MaxSaves
    /\ \E batch \in Batches :
          /\ data' = batch
          /\ repeated' = (Len(batch) = 1 /\ batch = previous)
    /\ clock' = clock + 1
    /\ fecha_actual' = clock + 1
    /\ calls' = calls + 1
    /\ idx' = 1
    /\ nuevas' = 0
    /\ actualizadas' = 0
    /\ tx_sentencias' = sentencias
    /\ spc' = "loop"
    /\ UNCHANGED <<sentencias, estadisticas, ret, previous, fetchVars, serviceVars>>

\* the INSERT succeeds (lines 143-156)
SaveInsert ==
    /\ spc = "loop"
    /\ idx <= Len(data)
    /\ ~ItemRaises(data[idx])
    /\ ~InsertConflicts(tx_sentencias, data[idx])
    /\ tx_sentencias' = tx_sentencias \cup {InsertedRow(tx_sentencias, data[idx], fecha_actual)}
    /\ nuevas' = nuevas + 1
    /\ idx' = idx + 1
    /\ UNCHANGED <<sentencias, estadisticas, clock, data, actualizadas,
                   fecha_actual, spc, ret, calls, previous, repeated, fetchVars, serviceVars>>

\* the update path counted as an insertion
SaveUpdateCountsNew ==
    /\ spc = "loop"
    /\ idx <= Len(data)
    /\ ~ItemRaises(data[idx])
    /\ InsertConflicts(tx_sentencias, data[idx])
    /\ LET matched == UpdateMatches(tx_sentencias, data[idx])
       IN tx_sentencias' = (tx_sentencias \ matched)
                \cup { UpdatedRow(r, data[idx], fecha_actual) : r \in matched }
    /\ nuevas' = nuevas + 1
    /\ idx' = idx + 1
    /\ UNCHANGED <<sentencias, estadisticas, clock, data, actualizadas,
                   fecha_actual, spc, ret, calls, previous, repeated, fetchVars, serviceVars>>

\* the INSERT raises IntegrityError: UPDATE by ruling number (lines 157-172)
SaveUpdate ==
    /\ spc = "loop"
    /\ idx <= Len(data)
    /\ ~ItemRaises(data[idx])
    /\ InsertConflicts(tx_sentencias, data[idx])
    /\ LET matched == UpdateMatches(tx_sentencias, data[idx])
       IN /\ tx_sentencias' = (tx_sentencias \ matched)
                \cup { UpdatedRow(r, data[idx], fecha_actual) : r \in matched }
          /\ actualizadas' = IF Cardinality(matched) > 0
                             THEN actualizadas + 1 ELSE actualizadas
    /\ idx' = idx + 1
    /\ UNCHANGED <<sentencias, estadisticas, clock, data, nuevas,
                   fecha_actual, spc, ret, calls, previous, repeated, fetchVars, serviceVars>>

\* processing the item raises and what the batch did so far is kept
SaveRaiseKeepsChanges ==
    /\ spc = "loop"
    /\ idx <= Len(data)
    /\ ItemRaises(data[idx])
    /\ spc' = "raised"
    /\ sentencias' = tx_sentencias
    /\ UNCHANGED <<tx_sentencias, estadisticas, clock, data, idx, nuevas,
                   actualizadas, fecha_actual, ret, calls, previous, repeated,
                   fetchVars, serviceVars>>

\* processing the item raises: the call ends without commit and the
\* connection's changes are dropped with it
SaveRaise ==
    /\ spc = "loop"
    /\ idx <= Len(data)
    /\ ItemRaises(data[idx])
    /\ spc' = "raised"
    /\ tx_sentencias' = sentencias
    /\ UNCHANGED <<sentencias, estadisticas, clock, data, idx, nuevas,
                   actualizadas, fecha_actual, ret, calls, previous, repeated,
                   fetchVars, serviceVars>>

\* the statistics row counts the rulings as they were before the call
SaveCommitCountsBefore ==
    /\ spc = "loop"
    /\ idx > Len(data)
    /\ sentencias' = tx_sentencias
    /\ estadisticas' = Append(estadisticas, StatsRow(sentencias, fecha_actual, nuevas))
    /\ ret' = nuevas
    /\ spc' = "returned"
    /\ previous' = IF Len(data) = 1 THEN data ELSE <<>>
    /\ UNCHANGED <<clock, data, idx, nuevas, actualizadas, fecha_actual,
                   tx_sentencias, calls, repeated, fetchVars, serviceVars>>

\* after the loop: count, statistics row, commit, return (lines 174-187)
SaveCommit ==
    /\ spc = "loop"
    /\ idx > Len(data)
    /\ sentencias' = tx_sentencias
    /\ estadisticas' = Append(estadisticas, StatsRow(tx_sentencias, fecha_actual, nuevas))
    /\ ret' = nuevas
    /\ spc' = "returned"
    /\ previous' = IF Len(data) = 1 THEN data ELSE <<>>
    /\ UNCHANGED <<clock, data, idx, nuevas, actualizadas, fecha_actual,
                   tx_sentencias, calls, repeated, fetchVars, serviceVars>>

\* the call is over and its locals are gone; the caller has the result
SaveReturn ==
    /\ spc \in {"returned", "raised"}
    /\ spc' = "idle"
    /\ data' = <<>>
    /\ idx' = 0
    /\ nuevas' = 0
    /\ actualizadas' = 0
    /\ fecha_actual' = 0
    /\ repeated' = FALSE
    /\ previous' = IF spc = "raised" THEN <<>> ELSE previous
    /\ UNCHANGED <<sentencias, estadisticas, clock, tx_sentencias, ret, calls,
                   fetchVars, serviceVars>>

(***************************************************************************)
(* The two ingestion triggers: the background_update thread (lines         *)
(* 311-325, started at line 887) and the POST /api/actualizar handler      *)
(* (lines 573-596), which app.run(threaded=True) runs in a thread of its   *)
(* own per request.  Both call fetch_data and then save_to_db; the code    *)
(* holds no lock around either.                                            *)
(***************************************************************************)
Updaters == {"background", "request_a", "request_b"}

NoWriter == "none"

\* what a fetch_data call may hand to save_to_db: nothing, one ruling, a
\* later version of it with another ruling, a ruling whose fundamentos came
\* as null from the source, alone and after a sound one
FetchedBatches ==
    { <<>>,
      << Record(1, "A", 1) >>,
      << Record(1, "A", 2), Record(2, "B", 1) >>,
      << [Record(2, "B", 2) EXCEPT !["fundamentos"] = PyNone] >>,
      << Record(2, "B", 1), [Record(1, "A", 2) EXCEPT !["fundamentos"] = PyNone] >> }

\* the loop of save_to_db over the records from position k on (lines
\* 138-172), on the rows its connection sees; n counts the insertions
RECURSIVE SaveLoop(_, _, _, _, _)
SaveLoop(rows, items, k, fecha, n) ==
    IF k > Len(items) THEN [rows |-> rows, nuevas |-> n, raised |-> FALSE]
    ELSE IF ItemRaises(items[k]) THEN [rows |-> rows, nuevas |-> n, raised |-> TRUE]
    ELSE IF InsertConflicts(rows, items[k])
         THEN SaveLoop((rows \ UpdateMatches(rows, items[k]))
                          \cup { UpdatedRow(r, items[k], fecha) :
                                    r \in UpdateMatches(rows, items[k]) },
                       items, k + 1, fecha, n)
         ELSE SaveLoop(rows \cup {InsertedRow(rows, items[k], fecha)},
                       items, k + 1, fecha, n + 1)

UpdateIdle ==
    /\ upc = [u \in Updaters |-> "idle"]
    /\ udata = [u \in Updaters |-> <<>>]
    /\ uout = [u \in Updaters |-> "none"]
    /\ writer = NoWriter
    /\ last_update = NULL
    /\ updates = 0

\* a round begins: the thread wakes up, or a request arrives, and fetch_data
\* is called (lines 316-317, 577-578)
UpdateBegins(u) ==
    /\ upc[u] = "idle"
    /\ updates < MaxUpdates
    /\ updates' = updates + 1
    /\ upc' = [upc EXCEPT ![u] = "fetching"]
    /\ UNCHANGED <<udata, uout, writer, last_update, fetchVars, saveVars, similarVars, queryVars, compareVars, keywordVars>>

\* fetch_data returns records: save_to_db is called (lines 318-319, 579-580)
FetchReturnsData(u) ==
    /\ upc[u] = "fetching"
    /\ \E batch \in FetchedBatches \ {<<>>} : udata' = [udata EXCEPT ![u] = batch]
    /\ upc' = [upc EXCEPT ![u] = "saving"]
    /\ UNCHANGED <<uout, writer, last_update, updates, fetchVars, saveVars, similarVars, queryVars, compareVars, keywordVars>>

\* fetch_data returns nothing: the round is over (lines 318, 325, 586-590)
FetchReturnsNothing(u) ==
    /\ upc[u] = "fetching"
    /\ upc' = [upc EXCEPT ![u] = "idle"]
    /\ uout' = [uout EXCEPT ![u] = "empty"]
    /\ UNCHANGED <<udata, writer, last_update, updates, fetchVars, saveVars, similarVars, queryVars, compareVars, keywordVars>>

\* the first record of the batch raises before any statement: the except
\* clause of the caller ends the round (lines 322-323, 591-596)
SaveFails(u) ==
    /\ upc[u] = "saving"
    /\ ItemRaises(udata[u][1])
    /\ upc' = [upc EXCEPT ![u] = "idle"]
    /\ udata' = [udata EXCEPT ![u] = <<>>]
    /\ uout' = [uout EXCEPT ![u] = "error"]
    /\ UNCHANGED <<writer, last_update, updates, fetchVars, saveVars, similarVars, queryVars, compareVars, keywordVars>>

\* the first statement of save_to_db opens the write transaction
SaveStarts(u) ==
    /\ upc[u] = "saving"
    /\ ~ItemRaises(udata[u][1])
    /\ writer = NoWriter
    /\ writer' = u
    /\ upc' = [upc EXCEPT ![u] = "writing"]
    /\ UNCHANGED <<udata, uout, last_update, updates, fetchVars, saveVars, similarVars, queryVars, compareVars, keywordVars>>

\* the first statement finds the store locked by another connection until
\* the timeout of sqlite3.connect: OperationalError ends the round
SaveLocked(u) ==
    /\ upc[u] = "saving"
    /\ ~ItemRaises(udata[u][1])
    /\ writer # NoWriter
    /\ upc' = [upc EXCEPT ![u] = "idle"]
    /\ udata' = [udata EXCEPT ![u] = <<>>]
    /\ uout' = [uout EXCEPT ![u] = "error"]
    /\ UNCHANGED <<writer, last_update, updates, fetchVars, saveVars, similarVars, queryVars, compareVars, keywordVars>>

\* the rest of save_to_db: the loop, the statistics row, the commit, or a
\* record that raises and the transaction dropped; the round ends
SaveEnds(u) ==
    /\ upc[u] = "writing"
    /\ LET done == SaveLoop(sentencias, udata[u], 1, clock + 1, 0)
       IN IF done.raised
          THEN /\ uout' = [uout EXCEPT ![u] = "error"]
               /\ UNCHANGED <<sentencias, estadisticas, last_update>>
          ELSE /\ uout' = [uout EXCEPT ![u] = "saved"]
               /\ sentencias' = done.rows
               /\ estadisticas' = Append(estadisticas,
                                         StatsRow(done.rows, clock + 1, done.nuevas))
               /\ last_update' = IF u = "background" THEN clock + 1 ELSE last_update
    /\ clock' = clock + 1
    /\ writer' = NoWriter
    /\ upc' = [upc EXCEPT ![u] = "idle"]
    /\ udata' = [udata EXCEPT ![u] = <<>>]
    /\ UNCHANGED <<updates, fetchVars, data, idx, nuevas, actualizadas,
                   fecha_actual, tx_sentencias, spc, ret, calls, previous, repeated,
                   similarVars, queryVars, compareVars, keywordVars>>

(***************************************************************************)
(* utils.py: TextAnalyzer.  The index is the pair (vectors,                *)
(* sentencias_ids).  A row of the TF-IDF matrix is modelled by the terms   *)
(* of its text in order, which determine its n-grams; the matrix is the    *)
(* list of its rows, and None is told apart from a matrix.                 *)
(***************************************************************************)
NoMatrix == [none |-> TRUE, rows |-> <<>>]
Matrix(rows) == [none |-> FALSE, rows |-> rows]

\* the terms the vectorizer's token pattern finds in a ruling number: a run
\* of at least two word characters
NumeroTerms(numero) ==
    IF numero = "N/A" \/ Len(numero) < 2 THEN <<>> ELSE <<numero>>

\* the terms of a text: its words of two characters or more, in lower
\* case, without the stop words (lines 24-28)
IsTerm(tok) ==
    /\ tok \notin Separators
    /\ CharLen(tok) >= 2
    /\ tok \notin STOPWORDS

TextTerms(text) == SelectSeq(Lower(text), IsTerm)

\* the words a keyword text was joined from
KeywordWords == {"derecho", "civil", "contrato", "fundamento", "sobre"}
KeywordLists ==
    UNION { [1..n -> { w \o BS : w \in KeywordWords }] : n \in 0..2 }

\* the terms of a palabras_clave value: the backspaces and commas around
\* its words are no word characters
KeywordTerms(palabras) ==
    LET listed == CHOOSE ws \in KeywordLists : CommaJoin(ws) = palabras
    IN SelectSeq([k \in DOMAIN listed |->
                     CHOOSE w \in KeywordWords : w \o BS = listed[k]],
                 IsTerm)

\* the terms of the text build_index makes of a ruling (line 42)
RowTerms(sentencia) ==
    NumeroTerms(sentencia.numero_sentencia)
        \o TextTerms(sentencia.fundamentos)
        \o KeywordTerms(sentencia.palabras_clave)

\* the n-grams of 1 to 3 terms of a row: the features it has
Ngrams(terms) ==
    { SubSeq(terms, i, j) : i \in DOMAIN terms, j \in DOMAIN terms } \ {<<>>}
Features(terms) == { g \in Ngrams(terms) : Len(g) <= 3 }

\* SELECT * FROM sentencias: the rows in rowid order (lines 655-656)
RECURSIVE SelectAll(_)
SelectAll(rows) ==
    IF rows = {} THEN <<>>
    ELSE LET first == CHOOSE r \in rows : \A o \in rows : r.id <= o.id
         IN <<first>> \o SelectAll(rows \ {first})

\* fit_transform raises ValueError on an empty vocabulary (lines 46-50)
FitRaises(texts) == \A k \in DOMAIN texts : texts[k] = <<>>

\* the shape of a matrix: rows and features
Shape(m) ==
    <<Len(m.rows), Cardinality(UNION { Features(m.rows[k]) : k \in DOMAIN m.rows })>>

(***************************************************************************)
(* cosine_similarity (line 66).  Scores are in thousandths; OneAbove is    *)
(* the double next above 1.0, which the two normalisations and the dot     *)
(* product leave for rows that are equal (for two or three features of     *)
(* equal weight, 0.5773502691896258 squared three times sums to            *)
(* 1.0000000000000002).  Rows that share some n-gram but are not equal     *)
(* score strictly between 0 and 1, below or above the default threshold   *)
(* as their weights have it.                                               *)
(***************************************************************************)
Zero == 0
Low == 200
High == 600
One == 1000
OneAbove == 1001

CosineValues(a, b) ==
    IF Features(a) \cap Features(b) = {} THEN {Zero}
    ELSE IF a = b THEN {One, OneAbove}
    ELSE {Low, High}

\* what cosine_similarity(vector, vectors) may return for row pos
Similarities(rows, pos) ==
    { f \in [DOMAIN rows -> {Zero, Low, High, One, OneAbove}] :
        \A j \in DOMAIN rows : f[j] \in CosineValues(rows[pos], rows[j]) }

\* an ascending sort read backwards: equal similarities come out in the
\* reverse of their original order
RECURSIVE SortedPairsReversed(_, _)
SortedPairsReversed(sims, left) ==
    IF left = {} THEN <<>>
    ELSE LET best == CHOOSE i \in left :
                        \A j \in left : \/ sims[j] < sims[i]
                                        \/ sims[j] = sims[i] /\ j <= i
         IN <<best>> \o SortedPairsReversed(sims, left \ {best})

\* sort(key=similarity, reverse=True) of the pairs (i, sim): by decreasing
\* similarity, equal ones in their original order (line 72)
RECURSIVE SortedPairs(_, _)
SortedPairs(sims, left) ==
    IF left = {} THEN <<>>
    ELSE LET best == CHOOSE i \in left :
                        \A j \in left : \/ sims[j] < sims[i]
                                        \/ sims[j] = sims[i] /\ i <= j
         IN <<best>> \o SortedPairs(sims, left \ {best})

\* the loop over the sorted pairs (lines 74-82): a pair that is not the
\* queried row and meets the threshold is appended, and the loop is left
\* when the results have reached the limit; an index past the end of
\* sentencias_ids raises IndexError
RECURSIVE Collect(_, _, _, _, _, _, _)
Collect(order, sims, ids, pos, thr, lim, acc) ==
    IF order = <<>> THEN [raised |-> FALSE, results |-> acc]
    ELSE IF Head(order) # pos /\ sims[Head(order)] >= thr
         THEN IF Head(order) > Len(ids)
              THEN [raised |-> TRUE, results |-> <<>>]
              ELSE LET more == Append(acc, [id |-> ids[Head(order)],
                                                similarity |-> sims[Head(order)]])
                   IN IF Len(more) >= lim
                      THEN [raised |-> FALSE, results |-> more]
                      ELSE Collect(Tail(order), sims, ids, pos, thr, lim, more)
         ELSE Collect(Tail(order), sims, ids, pos, thr, lim, acc)

\* the position of the first occurrence of id in ids (line 62)
IndexOf(ids, id) == SetMin({ k \in DOMAIN ids : ids[k] = id })

\* find_similar without its test that the id is indexed: an unknown id is
\* taken for the first row
find_similarUnchecked(m, ids, id, thr, lim) ==
    IF m.none THEN { <<>> }
    ELSE { LET pos == IF \E k \in DOMAIN ids : ids[k] = id THEN IndexOf(ids, id) ELSE 1
               done == Collect(SortedPairs(sims, DOMAIN m.rows), sims, ids,
                               pos, thr, lim, <<>>)
           IN IF done.raised THEN <<>> ELSE done.results :
             sims \in Similarities(m.rows, 1) }

\* the answers find_similar may give (lines 52-87)
find_similar(m, ids, id, thr, lim) ==
    IF m.none THEN { <<>> }
    ELSE IF \A k \in DOMAIN ids : ids[k] # id THEN { <<>> }
    ELSE IF IndexOf(ids, id) > Len(m.rows) THEN { <<>> }
    ELSE { LET done == Collect(SortedPairs(sims, DOMAIN m.rows), sims, ids,
                               IndexOf(ids, id), thr, lim, <<>>)
           IN IF done.raised THEN <<>> ELSE done.results :
             sims \in Similarities(m.rows, IndexOf(ids, id)) }

\* build_index on a non-empty list (lines 37-50), done in one piece
build_index(m, ids, docs) ==
    IF docs = <<>> THEN [vectors |-> m, sentencias_ids |-> ids]
    ELSE [vectors |-> IF FitRaises([k \in DOMAIN docs |-> RowTerms(docs[k])])
                      THEN m
                      ELSE Matrix([k \in DOMAIN docs |-> RowTerms(docs[k])]),
          sentencias_ids |-> [k \in DOMAIN docs |-> docs[k].id]]

(***************************************************************************)
(* find_similar on its own: an index, an id, a threshold and a limit.      *)
(***************************************************************************)
DefaultThreshold == 300
DefaultLimit == 5

\* the rulings an index is built from: ruling k has id k, a number of its
\* own and one of the two contents
NumeroOf(k) == CASE k = 1 -> "A" [] k = 2 -> "B" [] k = 3 -> "C" [] OTHER -> "D"

StoredRuling(k, v) == InsertedRow({}, Record(k, NumeroOf(k), v), 0)

IndexedCorpora ==
    { [k \in DOMAIN f |-> StoredRuling(k, f[k])] :
        f \in UNION { [1..n -> {1, 2}] : n \in 1..MaxIndexed } }

\* the index before any build, and after build_index on a corpus
Indexes ==
    { [vectors |-> NoMatrix, sentencias_ids |-> <<>>] }
        \cup { build_index(NoMatrix, <<>>, c) : c \in IndexedCorpora }

\* a stored ruling whose text has no term: a one-letter number, a stop
\* word for fundamentos and no keyword
BlankRuling(k) ==
    [StoredRuling(k, 1) EXCEPT !.fundamentos = <<"para">>, !.palabras_clave = ""]

\* the ids the rulings of a corpus may start after
IdOffsets == {0, 1, 3}

Renumbered(c, offset) == [k \in DOMAIN c |-> [c[k] EXCEPT !.id = k + offset]]

\* the lists given to build_index: none, rulings with text, and rulings
\* whose texts leave the vocabulary empty
BuildCorpora ==
    {<<>>}
        \cup { Renumbered(c, o) : c \in IndexedCorpora, o \in IdOffsets }
        \cup { Renumbered([k \in 1..n |-> BlankRuling(k)], o) :
                 n \in 1..MaxIndexed, o \in IdOffsets }

\* a build_index call, from its first statement to its return
BuildIndex ==
    /\ \E c \in BuildCorpora :
          LET built == build_index(vectors, sentencias_ids, c)
          IN /\ vectors' = built.vectors
             /\ sentencias_ids' = built.sentencias_ids
    /\ UNCHANGED <<arg_id, arg_threshold, arg_limit, found, simpc,
                   fetchVars, saveVars, updateVars, queryVars, compareVars, keywordVars>>

Thresholds == {Zero, DefaultThreshold, One}
Limits == (0..MaxLimitAsked) \cup {DefaultLimit}

SimilarInit ==
    /\ \E index \in Indexes :
          /\ vectors = index.vectors
          /\ sentencias_ids = index.sentencias_ids
    /\ arg_id \in 1..(MaxIndexed + 1)
    /\ arg_threshold \in Thresholds
    /\ arg_limit \in Limits
    /\ found = <<>>
    /\ simpc = "called"

\* the call runs and returns; nothing in it assigns to the index
FindSimilar ==
    /\ simpc = "called"
    /\ found' \in find_similar(vectors, sentencias_ids, arg_id, arg_threshold, arg_limit)
    /\ simpc' = "returned"
    /\ UNCHANGED <<vectors, sentencias_ids, arg_id, arg_threshold, arg_limit,
                   fetchVars, saveVars, updateVars, queryVars, compareVars, keywordVars>>

\* no find_similar call is under way and the index was never built
SimilarIdle ==
    /\ vectors = NoMatrix
    /\ sentencias_ids = <<>>
    /\ arg_id = NULL
    /\ arg_threshold = DefaultThreshold
    /\ arg_limit = DefaultLimit
    /\ found = <<>>
    /\ simpc = "idle"

(***************************************************************************)
(* GET /api/sentencias/similares/<id> (app.py, lines 646-690).  Each       *)
(* request runs in a thread of its own; the handler and build_index hold   *)
(* no lock, so their statements interleave.                                *)
(***************************************************************************)
Queries == {"query_a", "query_b"}

\* two ids that rulings have and one that none has
QueryIds == {1, 2, 3}

NoAnswer == [status |-> 0, body |-> <<>>]

QueryIdle ==
    /\ qpc = [q \in Queries |-> "idle"]
    /\ qid = [q \in Queries |-> NULL]
    /\ qrows = [q \in Queries |-> <<>>]
    /\ qk = [q \in Queries |-> 0]
    /\ qout = [q \in Queries |-> NoAnswer]
    /\ queries = 0

\* what a step of a handler leaves alone: the fetch, the store, the
\* ingestion and the direct calls of find_similar
QueryFrame ==
    UNCHANGED <<fetchVars, saveVars, updateVars, compareVars, keywordVars,
                arg_id, arg_threshold, arg_limit, found, simpc>>

\* a request arrives
QueryArrives(q) ==
    /\ qpc[q] = "idle"
    /\ queries < MaxQueries
    /\ queries' = queries + 1
    /\ \E id \in QueryIds : qid' = [qid EXCEPT ![q] = id]
    /\ qpc' = [qpc EXCEPT ![q] = "check"]
    /\ qout' = [qout EXCEPT ![q] = NoAnswer]
    /\ UNCHANGED <<qrows, qk, vectors, sentencias_ids>>
    /\ QueryFrame

\* the truth value of a sparse matrix: defined for shape (1, 1) only, where
\* it tells whether the one entry is stored; ValueError for any other shape
MatrixTruth(m) ==
    IF Shape(m) = <<1, 1>> THEN "true" ELSE "ValueError"

\* if not text_analyzer.vectors (line 651): None leads to the rebuild, a
\* matrix of one row and one feature to find_similar, any other matrix to
\* the except clause and the answer 500 (lines 688-690)
CheckIndex(q) ==
    /\ qpc[q] = "check"
    /\ IF vectors.none
       THEN /\ qpc' = [qpc EXCEPT ![q] = "select"]
            /\ UNCHANGED qout
       ELSE IF MatrixTruth(vectors) = "true"
       THEN /\ qpc' = [qpc EXCEPT ![q] = "find"]
            /\ UNCHANGED qout
       ELSE /\ qpc' = [qpc EXCEPT ![q] = "idle"]
            /\ qout' = [qout EXCEPT ![q] = [status |-> 500, body |-> <<>>]]
    /\ UNCHANGED <<qid, qrows, qk, queries, vectors, sentencias_ids>>
    /\ QueryFrame

\* the rulings are read (lines 652-657) and build_index is entered: an
\* empty list makes it return at once (lines 34-35)
SelectRows(q) ==
    /\ qpc[q] = "select"
    /\ qrows' = [qrows EXCEPT ![q] = SelectAll(sentencias)]
    /\ qpc' = [qpc EXCEPT ![q] = IF sentencias = {} THEN "find" ELSE "reset"]
    /\ UNCHANGED <<qid, qk, qout, queries, vectors, sentencias_ids>>
    /\ QueryFrame

\* self.sentencias_ids = [] (line 38)
BuildReset(q) ==
    /\ qpc[q] = "reset"
    /\ sentencias_ids' = <<>>
    /\ qk' = [qk EXCEPT ![q] = 1]
    /\ qpc' = [qpc EXCEPT ![q] = "append"]
    /\ UNCHANGED <<qid, qrows, qout, queries, vectors>>
    /\ QueryFrame

\* one turn of the loop: self.sentencias_ids.append (lines 40-44)
BuildAppend(q) ==
    /\ qpc[q] = "append"
    /\ sentencias_ids' = Append(sentencias_ids, qrows[q][qk[q]].id)
    /\ qk' = [qk EXCEPT ![q] = qk[q] + 1]
    /\ qpc' = [qpc EXCEPT ![q] = IF qk[q] = Len(qrows[q]) THEN "fit" ELSE "append"]
    /\ UNCHANGED <<qid, qrows, qout, queries, vectors>>
    /\ QueryFrame

\* self.vectors = fit_transform(texts), or the error logged (lines 46-50)
BuildFit(q) ==
    /\ qpc[q] = "fit"
    /\ LET texts == [k \in DOMAIN qrows[q] |-> RowTerms(qrows[q][k])]
       IN vectors' = IF FitRaises(texts) THEN vectors ELSE Matrix(texts)
    /\ qpc' = [qpc EXCEPT ![q] = "find"]
    /\ UNCHANGED <<qid, qrows, qk, qout, queries, sentencias_ids>>
    /\ QueryFrame

\* the rows of the similar rulings in rowid order, each with the score of
\* its entry (lines 664-684)
Detailed(similares, rows) ==
    LET ids == { similares[k].id : k \in DOMAIN similares }
        hits == SelectAll({ r \in rows : r.id \in ids })
    IN [k \in DOMAIN hits |->
          [id |-> hits[k].id,
           similarity_score |->
              similares[SetMin({ j \in DOMAIN similares :
                                   similares[j].id = hits[k].id })].similarity]]

\* find_similar with its default threshold and limit, and the answer
\* (lines 661-686)
Answer(q) ==
    /\ qpc[q] = "find"
    /\ \E similares \in find_similar(vectors, sentencias_ids, qid[q],
                                     DefaultThreshold, DefaultLimit) :
          qout' = [qout EXCEPT ![q] = [status |-> 200,
                                       body |-> Detailed(similares, sentencias)]]
    /\ qpc' = [qpc EXCEPT ![q] = "idle"]
    /\ qrows' = [qrows EXCEPT ![q] = <<>>]
    /\ qk' = [qk EXCEPT ![q] = 0]
    /\ UNCHANGED <<qid, queries, vectors, sentencias_ids>>
    /\ QueryFrame

\* an ingestion round as the queries see it: the commit of a save_to_db
\* call on a fetched batch
Ingested ==
    /\ updates < MaxUpdates
    /\ updates' = updates + 1
    /\ \E batch \in FetchedBatches \ {<<>>} :
          LET done == SaveLoop(sentencias, batch, 1, clock + 1, 0)
          IN /\ ~done.raised
             /\ sentencias' = done.rows
             /\ estadisticas' = Append(estadisticas,
                                       StatsRow(done.rows, clock + 1, done.nuevas))
    /\ clock' = clock + 1
    /\ UNCHANGED <<queryVars, vectors, sentencias_ids>>
    /\ UNCHANGED <<fetchVars, data, idx, nuevas, actualizadas, fecha_actual,
                   tx_sentencias, spc, ret, calls, previous, repeated,
                   upc, udata, uout, writer, last_update, compareVars, keywordVars,
                   arg_id, arg_threshold, arg_limit, found, simpc>>

(***************************************************************************)
(* ComparisonTool.compare_sentencias (utils.py, lines 353-402).  A text is *)
(* the sequence of its characters; the texts compared here are shorter     *)
(* than the 200 characters from which SequenceMatcher discards popular     *)
(* characters.                                                             *)
(***************************************************************************)
\* diff[:50] (line 400)
DiffLimit == 50

MetadataFields == {"numero_sentencia", "fecha_publicacion", "nombre_demandante",
                   "nombre_demandado", "numero_expediente"}

\* the length of the common run of a from i and of b from j
RECURSIVE MatchLen(_, _, _, _)
MatchLen(a, b, i, j) ==
    IF i > Len(a) \/ j > Len(b) \/ a[i] # b[j] THEN 0
    ELSE 1 + MatchLen(a, b, i + 1, j + 1)

\* SequenceMatcher.find_longest_match: the longest common block, the one
\* that starts earliest in a and, among those, earliest in b; size 0 when
\* nothing is common
LongestMatch(a, b) ==
    LET cand == { <<i, j>> \in (DOMAIN a) \X (DOMAIN b) : a[i] = b[j] }
    IN IF cand = {} THEN [i |-> 1, j |-> 1, size |-> 0]
       ELSE LET best == SetMax({ MatchLen(a, b, c[1], c[2]) : c \in cand })
                top == { c \in cand : MatchLen(a, b, c[1], c[2]) = best }
                i == SetMin({ c[1] : c \in top })
                j == SetMin({ c[2] : c \in { t \in top : t[1] = i } })
            IN [i |-> i, j |-> j, size |-> best]

\* the sum of the sizes of get_matching_blocks: the longest block, then
\* the same to its left and to its right
RECURSIVE Matches(_, _)
Matches(a, b) ==
    LET m == LongestMatch(a, b)
    IN IF m.size = 0 THEN 0
       ELSE Matches(SubSeq(a, 1, m.i - 1), SubSeq(b, 1, m.j - 1))
            + m.size
            + Matches(SubSeq(a, m.i + m.size, Len(a)),
                      SubSeq(b, m.j + m.size, Len(b)))

\* SequenceMatcher.ratio: 2.0 * matches / length, 1.0 for two empty texts;
\* the fraction is kept as numerator and denominator
Ratio(a, b) ==
    IF Len(a) + Len(b) = 0 THEN [num |-> 1, den |-> 1]
    ELSE [num |-> 2 * Matches(a, b), den |-> Len(a) + Len(b)]

DiffLine(tag, line) == [tag |-> tag, line |-> line]

\* get_opcodes laid out line by line: the lines of a block are kept, the
\* lines between two blocks are deleted from a and then inserted from b
RECURSIVE EditScript(_, _)
EditScript(a, b) ==
    LET m == LongestMatch(a, b)
    IN IF m.size = 0
       THEN [k \in DOMAIN a |-> DiffLine("-", a[k])]
            \o [k \in DOMAIN b |-> DiffLine("+", b[k])]
       ELSE EditScript(SubSeq(a, 1, m.i - 1), SubSeq(b, 1, m.j - 1))
            \o [k \in 1..m.size |-> DiffLine(" ", a[m.i + k - 1])]
            \o EditScript(SubSeq(a, m.i + m.size, Len(a)),
                          SubSeq(b, m.j + m.size, Len(b)))

\* get_grouped_opcodes(3): a kept line belongs to a hunk when a changed
\* line lies at most three lines away
InHunk(script, k) ==
    \E c \in DOMAIN script :
        /\ script[c].tag # " "
        /\ c - k <= 3
        /\ k - c <= 3

\* the lines of the hunks from position k on, a range line before the
\* first line of each hunk (the numbers of the range are left out)
RECURSIVE Hunks(_, _)
Hunks(script, k) ==
    IF k > Len(script) THEN <<>>
    ELSE IF ~InHunk(script, k) THEN Hunks(script, k + 1)
    ELSE (IF k = 1 \/ ~InHunk(script, k - 1)
          THEN <<DiffLine("@@", <<>>)>> ELSE <<>>)
         \o <<script[k]>> \o Hunks(script, k + 1)

\* difflib.unified_diff(a, b, lineterm='', n=3): nothing for equal lists,
\* else the two file lines and the hunks
unified_diff(a, b) ==
    LET script == EditScript(a, b)
    IN IF \A k \in DOMAIN script : script[k].tag = " " THEN <<>>
       ELSE <<DiffLine("---", <<>>), DiffLine("+++", <<>>)>> \o Hunks(script, 1)

\* str.splitlines for a text whose only line break is "\n"
RECURSIVE splitlines(_, _)
splitlines(text, line) ==
    IF text = <<>> THEN (IF line = <<>> THEN <<>> ELSE <<line>>)
    ELSE IF Head(text) = NL THEN <<line>> \o splitlines(Tail(text), <<>>)
    ELSE splitlines(Tail(text), Append(line, Head(text)))

\* diff[:50]
Truncate(diff, n) == SubSeq(diff, 1, IF Len(diff) < n THEN Len(diff) ELSE n)

\* ' '.join of the list, or the text itself (lines 383-384)
FundamentosText(sentencia) ==
    LET f == Get(sentencia, "fundamentos", PyList(<<>>))
    IN IF f.type = "list" THEN Join(f.items, SP) ELSE f.items[1]

\* str.split(', ') of the ', '-joined keywords: the empty text gives ['']
SplitKeywords(words) == IF words = <<>> THEN <<"">> ELSE words

KeywordSet(sentencia) ==
    LET words == SplitKeywords(Get(sentencia, "palabras_clave", <<>>))
    IN { words[k] : k \in DOMAIN words }

\* the words a compared ruling may have as keywords
ComparedWords == <<"", "civil", "contrato", "derecho">>

\* PYTHONHASHSEED is drawn when the interpreter starts; the hash of a text
\* depends on it, and with it the slot of the text in a set
HashSeeds == {1, 2}

Slot(word, seed) ==
    LET k == CHOOSE n \in DOMAIN ComparedWords : ComparedWords[n] = word
    IN IF seed = 1 THEN k ELSE Len(ComparedWords) + 1 - k

\* list(a set of texts): the members in the order of their slots
RECURSIVE ListOf(_, _)
ListOf(S, seed) ==
    IF S = {} THEN <<>>
    ELSE LET first == CHOOSE w \in S : \A o \in S : Slot(w, seed) <= Slot(o, seed)
         IN <<first>> \o ListOf(S \ {first}, seed)

\* one entry of comparison['metadata'] (lines 369-376)
MetadataEntry(s1, s2, field) ==
    [sentencia1 |-> Get(s1, field, "N/A"),
     sentencia2 |-> Get(s2, field, "N/A"),
     equal |-> Get(s1, field, "N/A") = Get(s2, field, "N/A")]

compare_sentencias(s1, s2, seed) ==
    LET keywords1 == KeywordSet(s1)
        keywords2 == KeywordSet(s2)
        fundamentos1 == FundamentosText(s1)
        fundamentos2 == FundamentosText(s2)
    IN [metadata |-> [field \in MetadataFields |-> MetadataEntry(s1, s2, field)],
        content_similarity |-> Ratio(fundamentos1, fundamentos2),
        common_keywords |-> ListOf(keywords1 \cap keywords2, seed),
        unique_keywords |->
            [sentencia1 |-> ListOf(keywords1 \ keywords2, seed),
             sentencia2 |-> ListOf(keywords2 \ keywords1, seed)],
        fundamentos_diff |->
            Truncate(unified_diff(splitlines(fundamentos1, <<>>),
                                  splitlines(fundamentos2, <<>>)), DiffLimit)]

\* the rulings given to compare_sentencias
ComparedRow(numero, demandado, keywords, fundamentos) ==
    [numero_sentencia |-> numero,
     fecha_publicacion |-> "2024-03-01",
     nombre_demandante |-> "demandante",
     nombre_demandado |-> demandado,
     numero_expediente |-> "expediente",
     palabras_clave |-> keywords,
     fundamentos |-> fundamentos]

LowerLetters == <<"a", "b", "c", "d", "e", "f", "g", "h", "i", "j", "k", "l", "m",
                  "n", "o", "p", "q", "r", "s", "t", "u", "v", "w", "x", "y", "z">>
UpperLetters == <<"A", "B", "C", "D", "E", "F", "G", "H", "I", "J", "K", "L", "M",
                  "N", "O", "P", "Q", "R", "S", "T", "U", "V", "W", "X", "Y", "Z">>

\* a text of one-letter lines
LinesOf(letters) == Join([k \in DOMAIN letters |-> <<letters[k]>>], NL)

ComparedRows ==
    { ComparedRow("A", "demandado", <<"civil", "contrato">>,
                  PyList(<< <<"a", "b">>, <<"c">> >>)),
      ComparedRow("B", "demandado", <<"contrato", "civil", "derecho">>,
                  PyList(<< <<"a", "b">>, <<"d">> >>)),
      ComparedRow("C", "N/A", <<>>, PyStr(<<"a", NL, "b", NL, "c">>)),
      Without(ComparedRow("D", "demandado", <<>>, PyStr(<<"a", NL, "x", NL, "c">>)),
              {"nombre_demandado", "palabras_clave"}),
      Without(ComparedRow("E", "demandado", <<"derecho">>, PyList(<<>>)),
              {"fundamentos"}),
      ComparedRow("F", "otro", <<"derecho", "civil">>, PyStr(LinesOf(LowerLetters))),
      ComparedRow("G", "otro", <<"civil", "derecho">>, PyStr(LinesOf(UpperLetters))) }

NoRow == <<>>

CompareIdle ==
    /\ sentencia1 = NoRow
    /\ sentencia2 = NoRow
    /\ hashseed = 1
    /\ comparisons = <<>>

CompareFrame ==
    UNCHANGED <<fetchVars, saveVars, updateVars, similarVars, queryVars, keywordVars>>

\* one more run of compare_sentencias on the pair
Compare ==
    /\ Len(comparisons) < MaxRuns
    /\ comparisons' = Append(comparisons,
                             compare_sentencias(sentencia1, sentencia2, hashseed))
    /\ UNCHANGED <<sentencia1, sentencia2, hashseed>>
    /\ CompareFrame

\* the program is started again: another hash seed
Restart ==
    /\ \E seed \in HashSeeds \ {hashseed} : hashseed' = seed
    /\ UNCHANGED <<sentencia1, sentencia2, comparisons>>
    /\ CompareFrame

(***************************************************************************)
(* extract_keywords on its own: one call on a text.                        *)
(***************************************************************************)
\* what the texts given to extract_keywords are made of
KeywordTokens == {"sobre", "contrato", "para", "Derecho", BS, SP}

\* twelve words, each followed by a backspace
ManyWords ==
    <<"contrato", BS, "derecho", BS, "civil", BS, "fundamento", BS,
      "demanda", BS, "juez", BS, "sala", BS, "recurso", BS, "plazo", BS,
      "norma", BS, "prueba", BS, "fallo", BS, "fallo", BS>>

KeywordTexts ==
    UNION { [1..n -> KeywordTokens] : n \in 0..MaxTokens } \cup {ManyWords}

\* the fundamentos given: a text, or the list of its one paragraph
KeywordInputs ==
    { PyStr(t) : t \in KeywordTexts } \cup { PyList(<<t>>) : t \in KeywordTexts }

KeywordIdle ==
    /\ kw_arg = PyStr(<<>>)
    /\ kw_list = <<>>
    /\ kw_ret = ""
    /\ kwpc = "idle"

\* the call runs and returns; kw_list is its local palabras_clave
ExtractKeywords ==
    /\ kwpc = "called"
    /\ kw_list' = keyword_list(kw_arg)
    /\ kw_ret' = extract_keywords(kw_arg)
    /\ kwpc' = "returned"
    /\ UNCHANGED <<kw_arg, fetchVars, saveVars, updateVars, similarVars,
                   queryVars, compareVars>>

vars == <<fetchVars, saveVars, serviceVars>>

\* nothing outside fetch_data and save_to_db is running
ServiceIdle ==
    UpdateIdle /\ SimilarIdle /\ QueryIdle /\ CompareIdle /\ KeywordIdle

FetchNext ==
    \/ StopAtLimit
    \/ BeginRetries
    \/ RateLimitAnswer
    \/ ServerErrorAnswer
    \/ TransportFailure
    \/ RetriesExhausted
    \/ OkAnswer
    \/ ClientErrorAnswer
    \/ ProcessPage
    \/ ProcessNoData
    \/ ProcessUnparseable
    \/ ProcessHttpError

\* a fetch_data call on a program that has saved nothing yet
FetchStart == FetchInit /\ SaveInit /\ sentencias = {} /\ ServiceIdle

FetchSpec == FetchStart /\ [][FetchNext]_vars

\* fetch_data runs in a thread that is scheduled again and again, and
\* requests.get returns or raises within config.API_TIMEOUT: a step that
\* can be taken is taken
FetchLiveSpec == FetchStart /\ [][FetchNext]_vars /\ WF_vars(FetchNext)

\* no fetch_data call is running
FetchIdle ==
    /\ corpus = ScenarioCorpus
    /\ start_page = 1
    /\ max_pages_fetch = NoLimit
    /\ stop_date_str = NoneText
    /\ stop_date = ParseStopDate(stop_date_str)
    /\ page = start_page
    /\ pages_processed = 0
    /\ attempt = 0
    /\ delay = BaseDelay
    /\ response = NoResponse
    /\ all_data = <<>>
    /\ fpc = "while"
    /\ requests = <<>>
    /\ sleeps = <<>>

SaveNext ==
    \/ SaveCall
    \/ SaveInsert
    \/ SaveUpdate
    \/ SaveRaise
    \/ SaveCommit
    \/ SaveReturn

\* the program after init_db, before any fetch_data call
SaveStart == FetchIdle /\ SaveInit /\ ServiceIdle

SaveSpec == SaveStart /\ [][SaveNext]_vars

UpdateNext ==
    \E u \in Updaters :
        \/ UpdateBegins(u)
        \/ FetchReturnsData(u)
        \/ FetchReturnsNothing(u)
        \/ SaveFails(u)
        \/ SaveStarts(u)
        \/ SaveLocked(u)
        \/ SaveEnds(u)

\* the running program: the background thread waits for its first round and
\* no request has arrived
UpdateStart == FetchIdle /\ SaveInit /\ ServiceIdle

UpdateSpec == UpdateStart /\ [][UpdateNext]_vars

\* one find_similar call on an index, with nothing else running
SimilarStart ==
    /\ FetchIdle /\ SaveInit /\ sentencias = {} /\ UpdateIdle /\ QueryIdle
    /\ CompareIdle /\ KeywordIdle
    /\ SimilarInit

SimilarSpec == SimilarStart /\ [][FindSimilar]_vars

IndexNext ==
    \/ \E q \in Queries : QueryArrives(q)
    \/ \E q \in Queries : CheckIndex(q)
    \/ \E q \in Queries : SelectRows(q)
    \/ \E q \in Queries : BuildReset(q)
    \/ \E q \in Queries : BuildAppend(q)
    \/ \E q \in Queries : BuildFit(q)
    \/ \E q \in Queries : Answer(q)
    \/ Ingested

\* the running program with no request under way and the index not built
IndexStart == FetchIdle /\ SaveInit /\ ServiceIdle

IndexSpec == IndexStart /\ [][IndexNext]_vars

CompareNext == Compare \/ Restart

\* any pair of rulings, in a program started with any hash seed
CompareStart ==
    /\ FetchIdle /\ SaveInit /\ sentencias = {} /\ UpdateIdle /\ SimilarIdle
    /\ QueryIdle /\ KeywordIdle
    /\ sentencia1 \in ComparedRows
    /\ sentencia2 \in ComparedRows
    /\ hashseed \in HashSeeds
    /\ comparisons = <<>>

CompareSpec == CompareStart /\ [][CompareNext]_vars

\* one extract_keywords call on any of the texts
KeywordStart ==
    /\ FetchIdle /\ SaveInit /\ sentencias = {} /\ UpdateIdle /\ SimilarIdle
    /\ QueryIdle /\ CompareIdle
    /\ kw_arg \in KeywordInputs
    /\ kw_list = <<>>
    /\ kw_ret = ""
    /\ kwpc = "called"

KeywordSpec == KeywordStart /\ [][ExtractKeywords]_vars

\* the analyzer as constructed, and build_index called again and again
BuildStart == FetchIdle /\ SaveInit /\ sentencias = {} /\ ServiceIdle

BuildSpec == BuildStart /\ [][BuildIndex]_vars

TypeOK == fpc \in {"while", "attempt", "process", "done"}

(***************************************************************************)
(* What the source saw and what it holds, for stating the properties.      *)
(***************************************************************************)
RequestedPages == { requests[k][1] : k \in DOMAIN requests }

\* the answers given to the requests for page p, in order
AnswersFor(p) ==
    LET ForPage(e) == e[1] = p
        sel == SelectSeq(requests, ForPage)
    IN [k \in DOMAIN sel |-> sel[k][2]]

UsableBodies == {"envelope", "no_pagination"}
BrokenBodies == {"error_flag", "no_data", "empty_data", "not_json"}

\* every request so far was answered 200 with a complete envelope
AllAnsweredOk == \A k \in DOMAIN requests : requests[k][2] = "envelope"

\* the date of an item as a number, ValueError when it has none
DateOf(source) ==
    LET s == Get(source, "fecha_publicacion", NoneText)
    IN IF Truthy(s) /\ s # NA THEN strptime(s) ELSE ValueError

\* the records of page p that precede its first item older than the stop date
Kept(p) ==
    LET items == corpus[p]
        older == { k \in DOMAIN items :
                     stop_date # NoDate /\ DateOf(items[k]) # ValueError
                                        /\ DateOf(items[k]) < stop_date }
        n == IF older = {} THEN Len(items) ELSE SetMin(older) - 1
    IN [k \in 1..n |-> Normalize(items[k])]

\* the records of the pages answered with a usable envelope in a request log
RECURSIVE Accumulated(_)
Accumulated(log) ==
    IF log = <<>> THEN <<>>
    ELSE LET last == log[Len(log)]
         IN Accumulated(SubSeq(log, 1, Len(log) - 1))
              \o (IF last[2] \in UsableBodies THEN Kept(last[1]) ELSE <<>>)

\* the items of the pages from page p on, as one list
RECURSIVE ItemsFrom(_)
ItemsFrom(p) ==
    IF p > Len(corpus) THEN <<>> ELSE corpus[p] \o ItemsFrom(p + 1)

IsScenario ==
    /\ corpus = ScenarioCorpus
    /\ start_page = 1
    /\ stop_date_str = Mar01
    /\ max_pages_fetch = NoLimit

ScenarioPage1 == [k \in 1..3 |-> Normalize(ScenarioCorpus[1][k])]

(***************************************************************************)
(* C1.  End-to-end stop-date scenario.                                      *)
(***************************************************************************)
\* C1 as stated: in the scenario (page 1 dated 2024-03-03..01, page 2 dated
\* 2024-02-16..15, stop date 2024-03-01, every request answered 200) the run
\* returns the 3 items of page 1 and no request for page 2 is ever issued.
C1_Page2NeverRequested ==
    (IsScenario /\ AllAnsweredOk) =>
        /\ 2 \notin RequestedPages
        /\ fpc = "done" => all_data = ScenarioPage1

\* C1 amended: in the scenario, run without a page limit, the run returns
\* exactly the 3 items of page 1 after requesting page 1 once and page 2
\* once; the first item of page 2 halts it and no further page is requested.
C1_ScenarioResult ==
    (IsScenario /\ AllAnsweredOk /\ fpc = "done") =>
        /\ all_data = ScenarioPage1
        /\ requests = << <<1, "envelope">>, <<2, "envelope">> >>

C1_Witness ==
    /\ IsScenario /\ AllAnsweredOk /\ fpc = "done"
    /\ 2 \in RequestedPages
    /\ Len(all_data) = 3

(***************************************************************************)
(* C2.  Stop-date correctness on a source with descending dates.           *)
(***************************************************************************)
\* every item of the source has a calendar date and the dates never increase
\* from one item to the next, across pages
DatesDescend ==
    LET flat == ItemsFrom(1)
    IN /\ \A k \in DOMAIN flat : DateOf(flat[k]) # ValueError
       /\ \A k \in 1..(Len(flat) - 1) : DateOf(flat[k]) >= DateOf(flat[k + 1])

NotOlder(source) == DateOf(source) >= stop_date

\* C2: on a source with descending dates, every request answered 200 with
\* a complete envelope, no page limit and a valid stop date D, the finished
\* run returned exactly the items dated D or later of the pages from
\* start_page on, in source order.
C2_StopDateExact ==
    (/\ fpc = "done"
     /\ stop_date # NoDate
     /\ max_pages_fetch = NoLimit
     /\ AllAnsweredOk
     /\ requests # <<>>
     /\ DatesDescend) =>
        LET wanted == SelectSeq(ItemsFrom(start_page), NotOlder)
        IN all_data = [k \in DOMAIN wanted |-> Normalize(wanted[k])]

C2_Witness ==
    /\ fpc = "done" /\ stop_date # NoDate /\ max_pages_fetch = NoLimit
    /\ AllAnsweredOk /\ DatesDescend
    /\ Cardinality(RequestedPages) = 2
    /\ all_data # <<>>
    /\ Len(all_data) < Len(ItemsFrom(start_page))

(***************************************************************************)
(* C3.  Retry success within the budget.                                    *)
(***************************************************************************)
\* block occurs in seq as a run of consecutive elements
Contains(seq, block) ==
    \E k \in 0..(Len(seq) - Len(block)) :
        SubSeq(seq, k + 1, k + Len(block)) = block

\* page p was answered retryable, retryable, then 200 with a usable envelope
RetriedTwiceThenOk(p) ==
    LET a == AnswersFor(p)
    IN /\ Len(a) >= 3
       /\ a[1] = "retryable" /\ a[2] = "retryable"
       /\ a[3] \in UsableBodies

\* C3: no page ever receives more than 3 requests; a page answered with a
\* retryable condition twice and 200 on the third attempt has exactly 3
\* requests and, once its answer is processed, its records are in all_data.
C3_RetryThenSuccess ==
    \A p \in RequestedPages :
        /\ Len(AnswersFor(p)) <= 3
        /\ RetriedTwiceThenOk(p) =>
              /\ Len(AnswersFor(p)) = 3
              /\ (page = p => fpc \in {"process", "done"})
              /\ ~(page = p /\ fpc = "process") => Contains(all_data, Kept(p))

C3_Witness ==
    \E p \in RequestedPages :
        /\ RetriedTwiceThenOk(p)
        /\ fpc = "done"
        /\ Kept(p) # <<>>
        /\ Contains(all_data, Kept(p))

(***************************************************************************)
(* C4.  Exhausted retries skip the page without aborting.                  *)
(***************************************************************************)
\* the k-th request was the third failed attempt for its page
ThirdFailure(k) ==
    /\ k >= 3
    /\ \A j \in (k - 2)..k : requests[j] = <<requests[k][1], "retryable">>

\* C4: after the third retryable answer for page p the run goes on: the next
\* request, if any, is for page p + 1; the run ends there only on the page
\* limit; the skip step keeps all_data, counts the page and moves to p + 1.
C4_SkipState ==
    \A k \in DOMAIN requests :
        ThirdFailure(k) =>
            /\ k < Len(requests) => requests[k + 1][1] = requests[k][1] + 1
            /\ (k = Len(requests) /\ fpc # "attempt") =>
                  /\ page = requests[k][1] + 1
                  /\ all_data = Accumulated(requests)
                  /\ fpc = "done" => LimitReached(max_pages_fetch, pages_processed)

C4_SkipStep ==
    (fpc = "attempt" /\ attempt >= retries) =>
        /\ all_data' = all_data
        /\ page' = page + 1
        /\ pages_processed' = pages_processed + 1
        /\ fpc' = "while"

C4_ExhaustedRetriesSkip == [](C4_SkipState) /\ [][C4_SkipStep]_vars

C4_Witness ==
    /\ Len(requests) >= 5
    /\ ThirdFailure(Len(requests) - 1)
    /\ requests[1][2] = "envelope"
    /\ all_data # <<>>

(***************************************************************************)
(* C5.  maxPages bound.                                                     *)
(***************************************************************************)
\* C5: with max_pages_fetch = M at most M distinct pages are requested (none
\* when M = 0); the pages requested are start_page, start_page + 1, ... in
\* increasing order, a page never requested again after a later one.
C5_MaxPagesBound ==
    /\ max_pages_fetch # NoLimit => Cardinality(RequestedPages) <= max_pages_fetch
    /\ max_pages_fetch = 0 => requests = <<>>
    /\ requests # <<>> => requests[1][1] = start_page
    /\ \A k \in 1..(Len(requests) - 1) :
          requests[k + 1][1] \in {requests[k][1], requests[k][1] + 1}
    /\ \A k \in 1..(Len(requests) - 1) :
          requests[k + 1][1] = requests[k][1] =>
              /\ requests[k][2] = "retryable"
              /\ ~ThirdFailure(k)

C5_Witness ==
    /\ max_pages_fetch = 2
    /\ fpc = "done"
    /\ Cardinality(RequestedPages) = 2
    /\ pages_processed = 2
    /\ \E k \in DOMAIN requests : ThirdFailure(k)

(***************************************************************************)
(* C6.  Total-page-count halt.                                              *)
(***************************************************************************)
\* C6 as stated: once an answer has reported pagination.num_pages = N (the
\* source reports its number of pages), no later request is for a page
\* numbered above N, also when page N was skipped after failed retries.
C6_NoRequestPastLastPage ==
    \A k \in DOMAIN requests :
        requests[k][2] = "envelope" =>
            \A j \in (k + 1)..Len(requests) : requests[j][1] <= Len(corpus)

(***************************************************************************)
(* C7.  Envelope termination.                                               *)
(***************************************************************************)
\* C7: a 200 answer whose payload has an error flag, has no or empty data or
\* is not JSON is the last request of the run; the run then ends with
\* exactly the records accumulated from the earlier pages.
C7_BrokenState ==
    \A k \in DOMAIN requests :
        requests[k][2] \in BrokenBodies =>
            /\ k = Len(requests)
            /\ fpc \in {"process", "done"}
            /\ all_data = Accumulated(SubSeq(requests, 1, k - 1))

C7_BrokenStep ==
    (fpc = "process" /\ response.status = 200 /\ response.body \in BrokenBodies) =>
        (fpc' = "done" /\ all_data' = all_data)

C7_EnvelopeTermination == [](C7_BrokenState) /\ [][C7_BrokenStep]_vars

C7_Witness ==
    /\ fpc = "done"
    /\ Len(requests) >= 2
    /\ requests[Len(requests)][2] \in BrokenBodies
    /\ requests[Len(requests)][1] <= Len(corpus)
    /\ all_data # <<>>

(***************************************************************************)
(* C8.  Idempotent upsert.                                                  *)
(***************************************************************************)
\* the stored row carries the fields of the record as saved at time fecha
StoresRecord(row, item, fecha) ==
    /\ row.numero_sentencia = item["numero_sentencia"]
    /\ row.fecha_publicacion = item["fecha_publicacion"]
    /\ row.nombre_demandante = item["nombre_demandante"]
    /\ row.nombre_demandado = item["nombre_demandado"]
    /\ row.numero_expediente = item["numero_expediente"]
    /\ row.fundamentos = fundamentos_texto(item["fundamentos"])
    /\ row.url_archivo = item["url_archivo"]
    /\ row.palabras_clave = extract_keywords(item["fundamentos"])
    /\ row.resumen = generate_summary(item["fundamentos"])
    /\ row.fecha_scraping = fecha

\* C8 as stated: when save_to_db has returned from a second call with the
\* same single record, the store holds exactly one row with the record's
\* ruling number, the call returned 0, and that row has the record's fields
\* and the time of this save as fecha_scraping.
C8_IdempotentUpsert ==
    (spc = "returned" /\ repeated /\ Len(data) = 1) =>
        LET rows == { r \in sentencias :
                        r.numero_sentencia = data[1]["numero_sentencia"] }
        IN /\ Cardinality(rows) = 1
           /\ ret = 0
           /\ \A r \in rows : StoresRecord(r, data[1], fecha_actual)

(***************************************************************************)
(* C9.  Upsert never loses a record.                                        *)
(***************************************************************************)
\* the last record of the batch that carries the ruling number of record k
LastWithNumber(k) ==
    data[SetMax({ j \in DOMAIN data :
                    data[j]["numero_sentencia"] = data[k]["numero_sentencia"] })]

\* C9 as stated: when save_to_db has returned, inserted count plus updated
\* count equals the batch size, and for every ruling number of the batch the
\* store holds a row with the fields of the last batch record carrying it.
C9_UpsertNeverLoses ==
    spc = "returned" =>
        /\ nuevas + actualizadas = Len(data)
        /\ \A k \in DOMAIN data :
              \E r \in sentencias : StoresRecord(r, LastWithNumber(k), fecha_actual)

(***************************************************************************)
(* C10.  The returned value counts only true insertions.                    *)
(***************************************************************************)
C10_ReturnStep ==
    (spc = "loop" /\ spc' = "returned") =>
        ret' = Cardinality(sentencias') - Cardinality(sentencias)

\* C10: the value save_to_db returns equals the number of sentencias rows
\* after the save minus the number before it.
C10_ReturnCountsInsertions == [][C10_ReturnStep]_vars

C10_Witness ==
    /\ spc = "returned"
    /\ Len(data) = 2
    /\ ret = 1
    /\ actualizadas = 1
    /\ Cardinality(sentencias) = 2

(***************************************************************************)
(* C11.  Ingestion statistics are append-only and exact.                   *)
(***************************************************************************)
C11_StatsStep ==
    IF spc = "loop" /\ spc' = "returned"
    THEN /\ Len(estadisticas') = Len(estadisticas) + 1
         /\ SubSeq(estadisticas', 1, Len(estadisticas)) = estadisticas
         /\ estadisticas'[Len(estadisticas')].total_sentencias = Cardinality(sentencias')
         /\ estadisticas'[Len(estadisticas')].nuevas_sentencias = ret'
    ELSE estadisticas' = estadisticas

\* C11: a save_to_db call that completes appends exactly one statistics row,
\* whose total_sentencias is the number of rulings stored after the batch and
\* whose nuevas_sentencias is the value the call returns; no other step
\* touches the statistics, and the rows already there stay as they were.
C11_StatsAppendOnly == [][C11_StatsStep]_vars

C11_Witness ==
    /\ spc = "returned"
    /\ Len(estadisticas) = 2
    /\ estadisticas[1].total_sentencias = 1
    /\ estadisticas[2].total_sentencias = 2
    /\ estadisticas[2].nuevas_sentencias = 1
    /\ actualizadas = 1

(***************************************************************************)
(* C12.  Atomic batch commit.                                              *)
(***************************************************************************)
C12_CommitStep ==
    /\ (sentencias' # sentencias \/ estadisticas' # estadisticas) =>
          /\ spc = "loop" /\ idx > Len(data) /\ spc' = "returned"
          /\ sentencias' = tx_sentencias
          /\ Len(estadisticas') = Len(estadisticas) + 1
    /\ spc' = "raised" =>
          /\ sentencias' = sentencias
          /\ estadisticas' = estadisticas
          /\ tx_sentencias' = sentencias

\* C12: the stored rulings and statistics change in one step only, the
\* commit that follows the whole batch and its statistics row; a call in
\* which a record raises leaves the store as the call found it, whatever the
\* records before it inserted or updated.
C12_AtomicBatchCommit == [][C12_CommitStep]_vars

C12_Witness ==
    /\ spc = "raised"
    /\ idx = 2
    /\ nuevas = 1
    /\ sentencias = {}
    /\ estadisticas = <<>>

(***************************************************************************)
(* C13.  Single in-flight ingestion.                                       *)
(***************************************************************************)
InFlight == { u \in Updaters : upc[u] # "idle" }

\* C13 as stated: in every reachable state at most one of the pipelines
\* (the background cycle, the manual triggers) is between the start of its
\* fetch_data call and the end of its save_to_db call.
C13_SingleInFlight == Cardinality(InFlight) <= 1

(***************************************************************************)
(* C16.  find_similar never returns the queried id and respects the        *)
(* threshold.                                                              *)
(***************************************************************************)
\* C16 as stated: no entry of a find_similar result has the queried id, and
\* every similarity returned is at least the threshold and at most 1.0.
C16_SelfFreeAndBounded ==
    simpc = "returned" =>
        \A k \in DOMAIN found :
            /\ found[k].id # arg_id
            /\ found[k].similarity >= arg_threshold
            /\ found[k].similarity <= One

(***************************************************************************)
(* C17.  find_similar returns at most limit results.                       *)
(***************************************************************************)
\* C17 as stated: for every limit >= 0 the result of find_similar has at
\* most limit entries, none when the limit is 0.
C17_AtMostLimit ==
    simpc = "returned" => Len(found) <= arg_limit

(***************************************************************************)
(* C18.  find_similar fails softly.                                        *)
(***************************************************************************)
Indexed(id) == \E k \in DOMAIN sentencias_ids : sentencias_ids[k] = id

C18_SoftState ==
    (simpc = "returned" /\ (vectors.none \/ ~Indexed(arg_id))) => found = <<>>

C18_SoftStep ==
    simpc' = "returned" =>
        /\ vectors' = vectors
        /\ sentencias_ids' = sentencias_ids

\* C18: a find_similar call on an index that was never built, or for an id
\* that is not among the indexed ids, returns the empty list, and no call
\* changes vectors or sentencias_ids.
C18_FailsSoftly == [](C18_SoftState) /\ [][C18_SoftStep]_vars

\* an unknown id asked of an index of three rulings, two of them alike,
\* with a threshold every row meets
C18_Witness ==
    /\ simpc = "returned"
    /\ ~vectors.none
    /\ Len(sentencias_ids) = 3
    /\ vectors.rows[1] = vectors.rows[2]
    /\ ~Indexed(arg_id)
    /\ arg_threshold = Zero
    /\ arg_limit = DefaultLimit
    /\ found = <<>>


\* the index that build_index makes of the rulings stored now
FreshIndex == build_index(NoMatrix, <<>>, SelectAll(sentencias))

Building(q) == qpc[q] \in {"reset", "append", "fit"}

\* an index is in place, nobody is rebuilding it, and it is not the index
\* of the rulings stored now
StaleIndex ==
    /\ ~vectors.none
    /\ \A q \in Queries : ~Building(q)
    /\ sentencias # {}
    /\ [vectors |-> vectors, sentencias_ids |-> sentencias_ids] # FreshIndex

C14_FreshnessStep ==
    \A q \in Queries :
        (StaleIndex /\ qpc[q] = "check" /\ qpc'[q] # "check")
            => qpc'[q] = "select"

\* C14: a similarity request that finds the index out of date with the
\* stored rulings (None, or built before a save changed them) rebuilds it
\* before it calls find_similar: from the test of the index the handler
\* goes on to read the rulings and build.
C14_IndexFreshness == [][C14_FreshnessStep]_vars

\* the ids and the matrix of the index come from one build: one id for
\* each row of the matrix
ConsistentIndex ==
    vectors.none \/ Len(sentencias_ids) = Len(vectors.rows)

\* C15: at most one rebuild of the index is under way at any time, and a
\* handler about to call find_similar while a rebuild is under way finds
\* ids and matrix that belong to the same build.
C15_SingleFlightRebuild ==
    /\ Cardinality({ q \in Queries : Building(q) }) <= 1
    /\ \A q \in Queries :
          (qpc[q] = "find" /\ \E p \in Queries : Building(p))
              => ConsistentIndex


\* the value is the text 'N/A'
IsUnknown(key, value) ==
    CASE key = "id" -> value \notin Int
      [] key = "fecha_publicacion" -> value = NA
      [] key = "fundamentos" -> value = PyStr(<<"N/A">>)
      [] OTHER -> value = "N/A"

\* C19: every record of all_data has the eight fields, and each field that
\* its source item lacks holds the text 'N/A', the id included.
C19_Normalization ==
    \A k \in DOMAIN all_data :
        \A key \in ItemKeys :
            /\ key \in DOMAIN all_data[k]
            /\ \A p \in DOMAIN corpus :
                  \A j \in DOMAIN corpus[p] :
                      (Normalize(corpus[p][j]) = all_data[k]
                         /\ key \notin DOMAIN corpus[p][j])
                          => IsUnknown(key, all_data[k][key])


\* every run on the pair returned the same comparison
SameComparisons ==
    \A i \in DOMAIN comparisons :
        \A j \in DOMAIN comparisons : comparisons[i] = comparisons[j]

\* the bounds of one comparison: the similarity between 0 and 1, at most
\* DiffLimit lines of diff, and equal flags that tell whether the two
\* recorded values are equal
WithinBounds(comparison) ==
    /\ comparison.content_similarity.den > 0
    /\ 0 <= comparison.content_similarity.num
    /\ comparison.content_similarity.num <= comparison.content_similarity.den
    /\ Len(comparison.fundamentos_diff) <= DiffLimit
    /\ \A field \in MetadataFields :
          comparison.metadata[field].equal
              <=> (comparison.metadata[field].sentencia1
                      = comparison.metadata[field].sentencia2)

ComparisonsWithinBounds ==
    \A k \in DOMAIN comparisons : WithinBounds(comparisons[k])

\* C20: compare_sentencias run twice on the same pair of rulings returns
\* the same comparison, the order of the keyword lists included; the
\* content similarity lies between 0 and 1, the diff has at most 50 lines,
\* and each equal flag is true exactly when the two recorded values are
\* equal.
C20_DeterminismAndBounds == SameComparisons /\ ComparisonsWithinBounds

\* the diff of a run was cut to DiffLimit lines
DiffWasCut ==
    /\ comparisons # <<>>
    /\ Len(unified_diff(splitlines(FundamentosText(sentencia1), <<>>),
                        splitlines(FundamentosText(sentencia2), <<>>))) > DiffLimit


\* inside the retry loop the delay is the base delay doubled once for
\* each failure of the page
C21_BackoffState == fpc = "attempt" => delay = BaseDelay * 2^attempt

C21_BackoffStep ==
    \* a retryable failure is followed by the sleep of its rank
    /\ (Len(requests') > Len(requests)
          /\ requests'[Len(requests')][2] = "retryable")
         => /\ attempt < retries
            /\ sleeps' = Append(sleeps, BaseDelay * 2^attempt)
            /\ attempt' = attempt + 1
    \* every page starts with the base delay
    /\ (fpc = "while" /\ fpc' = "attempt") => delay' = BaseDelay
    \* the pause between pages leaves the delay alone
    /\ (sleeps' # sleeps /\ requests' = requests)
         => /\ sleeps' = Append(sleeps, API_DELAY)
            /\ delay' = delay

\* C21: within the retry loop of a page the k-th retryable failure (429,
\* a status of 500 or more, or a transport exception) is followed by a
\* sleep of 5 * 2^(k-1) seconds; the delay is 5 again at the start of
\* every page, and the pause between pages does not change it.
C21_BackoffSchedule == [](C21_BackoffState) /\ [][C21_BackoffStep]_vars

\* two failures on a page, the page fetched, the pause, and a failure on
\* the next page
C21_Witness ==
    sleeps = <<BaseDelay, 2 * BaseDelay, API_DELAY, BaseDelay>>


\* C22: the list find_similar returns is sorted by similarity, largest
\* first, and two entries of exactly equal similarity stand in the order
\* of their rulings in the corpus given to build_index.
C22_SortedAndStable ==
    simpc = "returned" =>
        \A i \in DOMAIN found :
            \A j \in DOMAIN found :
                i < j =>
                    \/ found[i].similarity > found[j].similarity
                    \/ /\ found[i].similarity = found[j].similarity
                       /\ IndexOf(sentencias_ids, found[i].id)
                            < IndexOf(sentencias_ids, found[j].id)

\* a call for the first ruling returned two rulings of equal similarity
C22_Witness ==
    /\ simpc = "returned"
    /\ Len(found) = 2
    /\ found[1].similarity = found[2].similarity
    /\ arg_id = 1


\* how often the word stands in the lowered text, and where first
Frequency(text, word) ==
    Cardinality({ k \in DOMAIN text : LowerOf(text[k]) = word })

FirstPlace(text, word) ==
    SetMin({ k \in DOMAIN text : LowerOf(text[k]) = word } \cup {Len(text) + 1})

\* C23: the keywords extract_keywords returns are words of the text made
\* of at least MIN_WORD_LENGTH letters, none of them a configured stopword,
\* at most MAX_KEYWORDS of them and no word twice, the more frequent first
\* and words of equal frequency in the order of their first occurrence.
C23_KeywordsClean ==
    kwpc = "returned" =>
        LET text == KeywordText(kw_arg)
        IN /\ kw_ret = CommaJoin(kw_list)
           /\ Len(kw_list) <= MAX_KEYWORDS
           /\ \A k \in DOMAIN kw_list :
                 /\ Frequency(text, kw_list[k]) > 0
                 /\ IsLetters(kw_list[k])
                 /\ Len(kw_list[k]) >= MIN_WORD_LENGTH
                 /\ kw_list[k] \notin STOPWORDS
           /\ \A i \in DOMAIN kw_list :
                 \A j \in DOMAIN kw_list :
                     i < j =>
                        \/ Frequency(text, kw_list[i]) > Frequency(text, kw_list[j])
                        \/ /\ Frequency(text, kw_list[i]) = Frequency(text, kw_list[j])
                           /\ FirstPlace(text, kw_list[i]) < FirstPlace(text, kw_list[j])

\* what holds of every call: at most MAX_KEYWORDS matches, none twice,
\* each a match of the pattern in the text
KeywordsAreMatches ==
    kwpc = "returned" =>
        LET palabras == FindAll(Lower(KeywordText(kw_arg)), 1)
        IN /\ Len(kw_list) <= MAX_KEYWORDS
           /\ \A k \in DOMAIN kw_list : \E n \in DOMAIN palabras : palabras[n] = kw_list[k]
           /\ \A i \in DOMAIN kw_list :
                 \A j \in DOMAIN kw_list : i # j => kw_list[i] # kw_list[j]

\* a text with more than MAX_KEYWORDS different matches was cut to the
\* most frequent ones
KeywordsWereCut ==
    /\ kwpc = "returned"
    /\ Len(kw_list) = MAX_KEYWORDS
    /\ kw_list[1] = "fallo" \o BS


\* the date of a returned record as a number, ValueError when it has none
RecordDate(record) ==
    IF Truthy(record.fecha_publicacion) /\ record.fecha_publicacion # NA
    THEN strptime(record.fecha_publicacion)
    ELSE ValueError

\* the records of the items that precede the first item with a calendar
\* date earlier than the stop date
BeforeFirstOlder(items) ==
    LET older == { k \in DOMAIN items :
                     DateOf(items[k]) # ValueError /\ DateOf(items[k]) < stop_date }
        n == IF older = {} THEN Len(items) ELSE SetMin(older) - 1
    IN [k \in 1..n |-> Normalize(items[k])]

NoneOlderReturned ==
    \A k \in DOMAIN all_data :
        RecordDate(all_data[k]) # ValueError => RecordDate(all_data[k]) >= stop_date

\* C24 as stated: every finished run with a valid stop date returned no
\* record with a calendar date earlier than the stop date, and returned
\* exactly the items that precede the first item dated earlier than it.
C24_AsStated ==
    (stop_date # NoDate /\ fpc = "done") =>
        /\ NoneOlderReturned
        /\ all_data = BeforeFirstOlder(ItemsFrom(start_page))

\* C24 amended: with a valid stop date no returned record has a calendar
\* date earlier than it, whatever the order of the dates in the source;
\* and a finished run without page limit whose every request was answered
\* 200 with a complete envelope returned exactly the items, from the start
\* page on, that precede the first item dated earlier than the stop date,
\* the items without a calendar date among them.
C24_StopDateSound ==
    stop_date # NoDate =>
        /\ NoneOlderReturned
        /\ (/\ fpc = "done"
            /\ max_pages_fetch = NoLimit
            /\ AllAnsweredOk
            /\ requests # <<>>)
             => all_data = BeforeFirstOlder(ItemsFrom(start_page))

\* a run stopped by an older item after it kept an item without a calendar
\* date and an item dated later than the one before it
C24_Witness ==
    /\ fpc = "done" /\ stop_date # NoDate /\ max_pages_fetch = NoLimit
    /\ AllAnsweredOk /\ requests # <<>>
    /\ Len(all_data) < Len(ItemsFrom(start_page))
    /\ \E k \in DOMAIN all_data : RecordDate(all_data[k]) = ValueError
    /\ \E k \in 1..(Len(all_data) - 1) :
          /\ RecordDate(all_data[k]) # ValueError
          /\ RecordDate(all_data[k]) < RecordDate(all_data[k + 1])


\* with a page limit the requests number at most retries for each page
RequestsBounded ==
    max_pages_fetch # NoLimit => Len(requests) <= retries * max_pages_fetch

\* C25: a fetch_data run with a finite page limit M comes to its end
\* whatever the source answers, and issues at most 3 * M requests.
C25_FetchTerminates ==
    /\ [](RequestsBounded)
    /\ (max_pages_fetch # NoLimit) ~> (fpc = "done")

\* a finished run with page limit 1 that used its three requests
C25_Witness ==
    /\ fpc = "done"
    /\ max_pages_fetch = 1
    /\ Len(requests) = retries


\* a request answered with a status that is neither 200 nor retried is the
\* last one, and the records are those of the earlier pages
C26_ErrorState ==
    \A k \in DOMAIN requests :
        requests[k][2] = "http_error" =>
            /\ k = Len(requests)
            /\ fpc \in {"process", "done"}
            /\ all_data = Accumulated(SubSeq(requests, 1, k - 1))

C26_ErrorStep ==
    (fpc = "process" /\ response.status # 200) =>
        (fpc' = "done" /\ all_data' = all_data /\ requests' = requests)

\* C26: an answer whose status is not 200 and is neither 429 nor 500 or
\* more is the last request of the run: the page is not tried again, no
\* later page is requested, and the run ends with exactly the records
\* accumulated before.
C26_ErrorEndsRun == [](C26_ErrorState) /\ [][C26_ErrorStep]_vars

\* a run ended by such an answer on its second page, after a retry, with
\* the records of the first page
C26_Witness ==
    /\ fpc = "done"
    /\ Len(requests) >= 3
    /\ requests[Len(requests)][2] = "http_error"
    /\ requests[Len(requests) - 1][2] = "retryable"
    /\ all_data # <<>>


\* C27: after any sequence of build_index calls, when vectors is not None
\* the ids and the rows are those of one corpus: an id for each row, the
\* k-th id that of the ruling the k-th row was computed from.
C27_IndexConsistent ==
    ~vectors.none =>
        \E c \in BuildCorpora \ {<<>>} :
            /\ vectors = Matrix([k \in DOMAIN c |-> RowTerms(c[k])])
            /\ sentencias_ids = [k \in DOMAIN c |-> c[k].id]


\* the rowids of the rulings table
RowIds(rows) == { r.id : r \in rows }

\* C28: under single-writer ingestion no step removes a ruling from the
\* table, and a statistics row appended by a completed save_to_db call has
\* total_sentencias = the total of the row before it (the size of the table
\* when there is none) + its nuevas_sentencias.
C28_ChainStep ==
    LET n == Len(estadisticas)
    IN /\ RowIds(sentencias) \subseteq RowIds(sentencias')
       /\ Cardinality(sentencias') >= Cardinality(sentencias)
       /\ Len(estadisticas') > n =>
            /\ Len(estadisticas') = n + 1
            /\ estadisticas'[n + 1].total_sentencias =
                 (IF n = 0 THEN Cardinality(sentencias)
                  ELSE estadisticas[n].total_sentencias)
                     + estadisticas'[n + 1].nuevas_sentencias

\* hence the totals never decrease along the statistics rows
C28_TotalsNonDecreasing ==
    \A k \in 2..Len(estadisticas) :
        estadisticas[k].total_sentencias >= estadisticas[k - 1].total_sentencias

C28_StatisticsChain ==
    [](C28_TotalsNonDecreasing) /\ [][C28_ChainStep]_vars

\* two calls have completed, the second after an update and an insertion
C28_Witness ==
    /\ spc = "returned"
    /\ calls = 2
    /\ Len(estadisticas) >= 2
    /\ Len(data) = 2
    /\ actualizadas = 1
    /\ estadisticas[Len(estadisticas)].nuevas_sentencias = 1
    /\ estadisticas[Len(estadisticas)].total_sentencias = 2

====
